---- MODULE Spec2Model ----
(***************************************************************************)
(* Model of the action / run-condition core of the auto-clicker:           *)
(*   core/action.py            Action, its nine variants, create_action    *)
(*   core/job_run_condition.py JobRunCondition variants and their factory  *)
(*                                                                         *)
(* Python values are records [t, i, s]: t is the Python type, i the        *)
(* numeric payload (floats are kept in tenths), s the characters of a str. *)
(***************************************************************************)
EXTENDS Integers, Sequences, FiniteSets, TLC

(***************************************************************************)
(* Bounds of the model.                                                    *)
(***************************************************************************)
MaxExecs == 2
MaxClock == 6
MaxRunCount == 4
MaxStart == 2
MaxCount == 3
MaxDuration == 3
MaxCoord == 2
MaxDelay == 2
MaxJump == 2
MaxDepth == 4

(***************************************************************************)
(* Python values.                                                          *)
(***************************************************************************)
PyNone == [t |-> "none", i |-> 0, s |-> <<>>]
Absent == [t |-> "absent", i |-> 0, s |-> <<>>]
PyInt(n) == [t |-> "int", i |-> n, s |-> <<>>]
PyFloat(tenths) == [t |-> "float", i |-> tenths, s |-> <<>>]
PyBool(b) == [t |-> "bool", i |-> IF b THEN 1 ELSE 0, s |-> <<>>]
PyStr(chars) == [t |-> "str", i |-> 0, s |-> chars]
\* an opaque list / dict value with i elements (used where only its type and
\* truth value matter)
PyList(n) == [t |-> "list", i |-> n, s |-> <<>>]
\* float("inf") and float("-inf"): i holds the sign
PyInf(sign) == [t |-> "float", i |-> sign, s |-> <<"i", "n", "f">>]
IsInf(v) == v.t = "float" /\ v.s # <<>>

\* outcome of an expression that may raise: ok, the exception class, the value
Ok(v) == [ok |-> TRUE, exc |-> "", val |-> v]
Raise(e) == [ok |-> FALSE, exc |-> e, val |-> PyNone]

Digits == <<"0", "1", "2", "3", "4", "5", "6", "7", "8", "9">>
IsDigit(c) == \E k \in 1..10 : Digits[k] = c
DigitVal(c) == (CHOOSE k \in 1..10 : Digits[k] = c) - 1
IsSpace(c) == c \in {" ", "\t", "\n"}

Abs(n) == IF n < 0 THEN -n ELSE n
Max(a, b) == IF b > a THEN b ELSE a

Uppers == <<"A", "B", "C", "D", "E", "F", "G", "H", "I", "J", "K", "L", "M",
            "N", "O", "P", "Q", "R", "S", "T", "U", "V", "W", "X", "Y", "Z">>
Lowers == <<"a", "b", "c", "d", "e", "f", "g", "h", "i", "j", "k", "l", "m",
            "n", "o", "p", "q", "r", "s", "t", "u", "v", "w", "x", "y", "z">>
LowerChar(c) == IF \E k \in 1..26 : Uppers[k] = c
                THEN Lowers[CHOOSE k \in 1..26 : Uppers[k] = c]
                ELSE c
\* str.lower()
Lower(chars) == [k \in 1..Len(chars) |-> LowerChar(chars[k])]

RECURSIVE LStrip(_)
LStrip(chars) == IF chars # <<>> /\ IsSpace(Head(chars)) THEN LStrip(Tail(chars)) ELSE chars
RECURSIVE RStrip(_)
RStrip(chars) == IF chars # <<>> /\ IsSpace(chars[Len(chars)])
                 THEN RStrip(SubSeq(chars, 1, Len(chars) - 1))
                 ELSE chars
\* str.strip()
Strip(chars) == RStrip(LStrip(chars))

AllDigits(chars) == chars # <<>> /\ \A k \in 1..Len(chars) : IsDigit(chars[k])
RECURSIVE DigitsVal(_)
DigitsVal(chars) == IF chars = <<>> THEN 0
                    ELSE 10 * DigitsVal(SubSeq(chars, 1, Len(chars) - 1))
                         + DigitVal(chars[Len(chars)])
RECURSIVE NatToChars(_)
NatToChars(n) == IF n < 10 THEN <<Digits[n + 1]>>
                 ELSE NatToChars(n \div 10) \o <<Digits[(n % 10) + 1]>>
IntToChars(n) == IF n < 0 THEN <<"-">> \o NatToChars(-n) ELSE NatToChars(n)

HasSign(chars) == chars # <<>> /\ Head(chars) \in {"+", "-"}
Unsigned(chars) == IF HasSign(chars) THEN Tail(chars) ELSE chars
Signed(chars, n) == IF chars # <<>> /\ Head(chars) = "-" THEN -n ELSE n
DotAt(chars) == IF \E k \in 1..Len(chars) : chars[k] = "."
                THEN CHOOSE k \in 1..Len(chars) : chars[k] = "."
                ELSE 0

\* int(str): surrounding whitespace, an optional sign, decimal digits
ParseInt(chars) ==
    LET Parse(body, u) == IF AllDigits(u) THEN Ok(PyInt(Signed(body, DigitsVal(u))))
                          ELSE Raise("ValueError")
        Sign(body) == Parse(body, Unsigned(body))
    IN Sign(Strip(chars))

\* float(str): as int(str), with an optional fraction (one digit is kept,
\* floats being held in tenths)
ParseFloat(chars) ==
    LET Parse(body, u, d, whole, frac) ==
            IF Lower(u) \in {<<"i", "n", "f">>, <<"i", "n", "f", "i", "n", "i", "t", "y">>}
            THEN Ok(PyInf(Signed(body, 1)))
            ELSE IF d = 0
            THEN IF AllDigits(u) THEN Ok(PyFloat(Signed(body, 10 * DigitsVal(u))))
                 ELSE Raise("ValueError")
            ELSE IF (whole = <<>> \/ AllDigits(whole)) /\ (frac = <<>> \/ AllDigits(frac))
                    /\ (whole # <<>> \/ frac # <<>>) /\ Len(frac) <= 1
                 THEN Ok(PyFloat(Signed(body, 10 * DigitsVal(whole) + DigitsVal(frac))))
                 ELSE Raise("ValueError")
        Split(body, u, d) == Parse(body, u, d,
                                   IF d = 0 THEN u ELSE SubSeq(u, 1, d - 1),
                                   IF d = 0 THEN <<>> ELSE SubSeq(u, d + 1, Len(u)))
        Point(body, u) == Split(body, u, DotAt(u))
        Sign(body) == Point(body, Unsigned(body))
    IN Sign(Strip(chars))

\* a float in tenths truncated toward zero
Trunc(tenths) == IF tenths < 0 THEN -((-tenths) \div 10) ELSE tenths \div 10

\* int(v)
PyIntOf(v) ==
    CASE v.t = "int" -> Ok(PyInt(v.i))
      [] v.t = "bool" -> Ok(PyInt(v.i))
      [] v.t = "float" -> IF IsInf(v) THEN Raise("OverflowError") ELSE Ok(PyInt(Trunc(v.i)))
      [] v.t = "str" -> ParseInt(v.s)
      [] OTHER -> Raise("TypeError")

\* float(v)
PyFloatOf(v) ==
    CASE v.t = "int" -> Ok(PyFloat(10 * v.i))
      [] v.t = "bool" -> Ok(PyFloat(10 * v.i))
      [] v.t = "float" -> Ok(v)
      [] v.t = "str" -> ParseFloat(v.s)
      [] OTHER -> Raise("TypeError")

\* str(v)
PyStrOf(v) ==
    CASE v.t = "str" -> v.s
      [] v.t = "int" -> IntToChars(v.i)
      [] v.t = "bool" -> IF v.i = 1 THEN <<"T", "r", "u", "e">> ELSE <<"F", "a", "l", "s", "e">>
      [] v.t = "float" -> (IF v.i < 0 THEN <<"-">> ELSE <<>>)
                          \o (IF IsInf(v) THEN v.s
                              ELSE NatToChars(Abs(v.i) \div 10) \o <<".">>
                                   \o NatToChars(Abs(v.i) % 10))
      [] v.t = "none" -> <<"N", "o", "n", "e">>
      [] OTHER -> <<"[", "]">>

\* max(lo, v) for floats, lo in tenths: Python keeps the first argument unless
\* the second is strictly greater
FloatMax(lo, v) == IF IsInf(v) THEN (IF v.i > 0 THEN v ELSE PyFloat(lo))
                   ELSE PyFloat(Max(lo, v.i))
\* tenths < v for a float v
FloatLess(tenths, v) == IF IsInf(v) THEN v.i > 0 ELSE tenths < v.i
\* v > 0 for a float
FloatPositive(v) == v.i > 0

\* bool(v)
Truthy(v) ==
    CASE v.t = "str" -> v.s # <<>>
      [] v.t \in {"int", "float", "bool", "list"} -> v.i # 0
      [] OTHER -> FALSE

\* dict.get(key, default) on a key -> value map that holds Absent for a missing key
Get(d, key, default) == IF d[key] = Absent THEN default ELSE d[key]

(***************************************************************************)
(* Action data.  A params dict is a map over ParamKeys holding Absent for  *)
(* a missing key; the attributes a constructor sets are a map over the     *)
(* same names.  A fallback sequence is a tuple of entries                  *)
(* [isdict, type, fb], fb being the entry's own fallback entries.          *)
(***************************************************************************)
ParamKeys == {"x", "y", "button", "click_type", "delay_before", "hold_duration",
              "key", "duration", "swipe_x", "swipe_y", "text", "modifier", "main_key"}
AttrKeys == {"x", "y", "button", "click_type", "delay_before", "hold_duration",
             "key_name", "duration", "start_x", "start_y", "end_x", "end_y",
             "text_to_entry", "modifier_key", "main_key"}
EmptyDict == [k \in ParamKeys |-> Absent]
NoAttrs == [k \in AttrKeys |-> Absent]

\* a params argument: a dict, None, or some other value (truthy or not)
DictVal(d) == [t |-> "dict", d |-> d, truthy |-> \E k \in ParamKeys : d[k] # Absent]
NoneVal == [t |-> "none", d |-> EmptyDict, truthy |-> FALSE]
AbsentVal == [t |-> "absent", d |-> EmptyDict, truthy |-> FALSE]
OtherVal(truthy) == [t |-> "other", d |-> EmptyDict, truthy |-> truthy]

\* a fallback_action_sequence argument
FbList(items) == [t |-> "list", items |-> items]
FbNone == [t |-> "none", items |-> <<>>]
FbAbsent == [t |-> "absent", items |-> <<>>]
FbOther == [t |-> "other", items |-> <<>>]
FbEntry(type, fb) == [isdict |-> TRUE, type |-> type, fb |-> fb]
FbNotDict == [isdict |-> FALSE, type |-> Absent, fb |-> <<>>]

ClickTYPE == <<"c", "l", "i", "c", "k">>
PressKeyTYPE == <<"p", "r", "e", "s", "s", "_", "k", "e", "y">>
MoveMouseTYPE == <<"m", "o", "v", "e", "_", "m", "o", "u", "s", "e">>
DragTYPE == <<"d", "r", "a", "g">>
WaitTYPE == <<"w", "a", "i", "t">>
KeyDownTYPE == <<"k", "e", "y", "_", "d", "o", "w", "n">>
KeyUpTYPE == <<"k", "e", "y", "_", "u", "p">>
TextEntryTYPE == <<"t", "e", "x", "t", "_", "e", "n", "t", "r", "y">>
ModifiedKeyStrokeTYPE == <<"m", "o", "d", "i", "f", "i", "e", "d", "_", "k", "e", "y",
                           "_", "s", "t", "r", "o", "k", "e">>
KnownTypes == {ClickTYPE, PressKeyTYPE, MoveMouseTYPE, DragTYPE, WaitTYPE, KeyDownTYPE,
               KeyUpTYPE, TextEntryTYPE, ModifiedKeyStrokeTYPE}

NoAction == [type |-> <<>>, params |-> EmptyDict, condition_id |-> PyNone,
             next_met |-> PyNone, next_not_met |-> PyNone, is_absolute |-> FALSE,
             fallback |-> FbNone, is_valid |-> FALSE, validation_error |-> "",
             attrs |-> NoAttrs]
Fail(e) == [ok |-> FALSE, exc |-> e, val |-> NoAction]

\* condition_id normalisation of Action.__init__
InitConditionId(condition_id) ==
    LET Keep(stripped) == IF stripped # <<>> THEN PyStr(stripped) ELSE PyNone
    IN IF condition_id.t = "str" THEN Keep(Strip(condition_id.s)) ELSE PyNone

\* jump-index normalisation of Action.__init__ storing a parsed integer as it
\* is, without max(0, ...)
InitJumpIndex_no_clamp(value) ==
    LET Store(parsed) == IF parsed.ok /\ parsed.val.t = "int" THEN parsed.val ELSE PyNone
        Convert(val_str) == Store(IF Strip(val_str) # <<>> THEN ParseInt(val_str)
                                  ELSE Ok(PyNone))
    IN Convert(IF value.t # "none" THEN PyStrOf(value) ELSE <<>>)

\* jump-index normalisation of Action.__init__ (the two try blocks)
InitJumpIndex(value) ==
    LET Store(parsed) == IF parsed.ok /\ parsed.val.t = "int"
                         THEN PyInt(Max(0, parsed.val.i))
                         ELSE PyNone
        Convert(val_str) == Store(IF Strip(val_str) # <<>> THEN ParseInt(val_str)
                                  ELSE Ok(PyNone))
    IN Convert(IF value.t # "none" THEN PyStrOf(value) ELSE <<>>)

\* the loop of Action.__init__ keeping every dict, whatever its "type"
RECURSIVE InitFallbackLoop_any_dict(_)
InitFallbackLoop_any_dict(items) ==
    IF items = <<>> THEN <<>>
    ELSE (IF Head(items).isdict THEN <<Head(items)>> ELSE <<>>)
         \o InitFallbackLoop_any_dict(Tail(items))

\* levels of fallback nesting an entry carries, itself included
RECURSIVE EntryDepth(_)
EntryDepth(entry) ==
    IF ~entry.isdict THEN 0
    ELSE LET below == {EntryDepth(entry.fb[k]) : k \in 1..Len(entry.fb)} \cup {0}
         IN 1 + CHOOSE d \in below : \A e \in below : e <= d

\* the loop enforcing the editor's maximum of three levels
RECURSIVE InitFallbackLoop_depth_limited(_)
InitFallbackLoop_depth_limited(items) ==
    IF items = <<>> THEN <<>>
    ELSE (IF Head(items).isdict /\ Truthy(Head(items).type) /\ EntryDepth(Head(items)) <= 3
          THEN <<Head(items)>> ELSE <<>>)
         \o InitFallbackLoop_depth_limited(Tail(items))

\* the loop of Action.__init__ over fallback_action_sequence
RECURSIVE InitFallbackLoop(_)
InitFallbackLoop(items) ==
    IF items = <<>> THEN <<>>
    ELSE (IF Head(items).isdict /\ Truthy(Head(items).type) THEN <<Head(items)>> ELSE <<>>)
         \o InitFallbackLoop(Tail(items))
\* fallback_action_sequence filtering of Action.__init__
InitFallback(fallback) ==
    LET Keep(valid) == IF valid # <<>> THEN FbList(valid) ELSE FbNone
    IN IF fallback.t = "list" THEN Keep(InitFallbackLoop(fallback.items)) ELSE FbNone

\* Action.__init__, as run by a variant's super().__init__(...); a missing
\* argument takes the default None
BaseInit(type, params, condition_id, next_met, next_not_met, is_absolute, fallback) ==
    IF type.t # "str" \/ type.s = <<>> THEN Fail("ValueError")
    \* the warning's f-string calls type(params) with the parameter `type`, a str,
    \* in scope
    ELSE IF params.t \notin {"none", "dict"} THEN Fail("TypeError")
    ELSE Ok([type |-> type.s,
             params |-> IF params.t = "dict" THEN params.d ELSE EmptyDict,
             condition_id |-> InitConditionId(condition_id),
             next_met |-> InitJumpIndex(next_met),
             next_not_met |-> InitJumpIndex(next_not_met),
             is_absolute |-> Truthy(is_absolute),
             fallback |-> InitFallback(fallback),
             is_valid |-> TRUE,
             validation_error |-> "",
             attrs |-> NoAttrs])

\* Action(...) called on the abstract base itself: Action derives from ABC and
\* _execute_core_logic is an @abstractmethod, so instantiation raises TypeError
\* before __init__ runs
NewAction(type, params, condition_id, next_met, next_not_met, is_absolute, fallback) ==
    Fail("TypeError")

(***************************************************************************)
(* The variants' constructors.  A constructor's try block is a chain of    *)
(* steps over [a, done, exc]: a is the action so far, done says the block  *)
(* was left (an exception or an early return), exc is an exception the     *)
(* block's except clause does not catch.                                   *)
(***************************************************************************)
CatchValueType == {"ValueError", "TypeError"}
CatchException == {"ValueError", "TypeError", "OverflowError"}

Begin(action) == [a |-> action, done |-> FALSE, exc |-> ""]
\* the except clause: _is_valid = False; _validation_error = str(e)
Except(c, e, catches) ==
    IF e \in catches
    THEN [a |-> [c.a EXCEPT !.is_valid = FALSE, !.validation_error = e],
          done |-> TRUE, exc |-> ""]
    ELSE [a |-> c.a, done |-> TRUE, exc |-> e]
\* self.<attr> = int(self.params.get(key, default))
SetInt(c, attr, key, default, catches) ==
    IF c.done THEN c
    ELSE LET Store(r) == IF r.ok THEN [c EXCEPT !.a.attrs[attr] = r.val]
                         ELSE Except(c, r.exc, catches)
         IN Store(PyIntOf(Get(c.a.params, key, default)))
\* a duration stored as float(...) without max(0.0, ...)
SetDuration_no_clamp(c, attr, key, default, catches) ==
    IF c.done THEN c
    ELSE LET Store(r) == IF r.ok
                         THEN [c EXCEPT !.a.attrs[attr] = r.val, !.a.params[key] = r.val]
                         ELSE Except(c, r.exc, catches)
         IN Store(PyFloatOf(Get(c.a.params, key, default)))
\* self.<attr> = float(self.params.get(key, default));
\* self.<attr> = max(0.0, self.<attr>); self.params[key] = self.<attr>
SetDuration(c, attr, key, default, catches) ==
    IF c.done THEN c
    ELSE LET Store(r) == IF r.ok
                         THEN [c EXCEPT !.a.attrs[attr] = FloatMax(0, r.val),
                                        !.a.params[key] = FloatMax(0, r.val)]
                         ELSE Except(c, r.exc, catches)
         IN Store(PyFloatOf(Get(c.a.params, key, default)))
\* self.<attr> = str(self.params.get(key, default)).lower();
\* if self.<attr> not in allowed: self.<attr> = default; self.params[key] = default
SetChoice(c, attr, key, default, allowed) ==
    IF c.done THEN c
    ELSE LET Store(v) == IF v \in allowed THEN [c EXCEPT !.a.attrs[attr] = PyStr(v)]
                         ELSE [c EXCEPT !.a.attrs[attr] = PyStr(default),
                                        !.a.params[key] = PyStr(default)]
         IN Store(Lower(PyStrOf(Get(c.a.params, key, PyStr(default)))))
\* self.<attr> = str(self.params.get(key, ""))
SetStr(c, attr, key) ==
    IF c.done THEN c
    ELSE [c EXCEPT !.a.attrs[attr] = PyStr(PyStrOf(Get(c.a.params, key, PyStr(<<>>))))]
\* if not self.<attr>: self._is_valid = False; self._validation_error = msg; return
RequireAll(c, attrs, msg) ==
    IF c.done THEN c
    ELSE IF \E k \in attrs : c.a.attrs[k].s = <<>>
         THEN [a |-> [c.a EXCEPT !.is_valid = FALSE, !.validation_error = msg],
               done |-> TRUE, exc |-> ""]
         ELSE c
\* the else clause (_is_valid = True) and the constructor's outcome
Finish(base, c) ==
    IF ~base.ok THEN base
    ELSE IF c.exc # "" THEN Fail(c.exc)
    ELSE IF c.done THEN Ok(c.a)
    ELSE Ok([c.a EXCEPT !.is_valid = TRUE])

Buttons == {<<"l", "e", "f", "t">>, <<"r", "i", "g", "h", "t">>, <<"m", "i", "d", "d", "l", "e">>}
ClickTypes == {<<"s", "i", "n", "g", "l", "e">>, <<"d", "o", "u", "b", "l", "e">>,
               <<"d", "o", "w", "n">>, <<"u", "p">>}
LeftButton == <<"l", "e", "f", "t">>
SingleClick == <<"s", "i", "n", "g", "l", "e">>
EmptyKeyError == "key_name parameter is empty."
EmptyModifierError == "modifier or main_key parameter is empty."

\* ClickAction.__init__
ClickAction(params, condition_id, next_met, next_not_met, is_absolute, fallback) ==
    LET Body(base) ==
            LET c0 == Begin(base.val)
                c1 == SetInt(c0, "x", "x", PyInt(0), CatchValueType)
                c2 == SetInt(c1, "y", "y", PyInt(0), CatchValueType)
                c3 == SetChoice(c2, "button", "button", LeftButton, Buttons)
                c4 == SetChoice(c3, "click_type", "click_type", SingleClick, ClickTypes)
                c5 == SetDuration(c4, "delay_before", "delay_before", PyFloat(0), CatchValueType)
                c6 == SetDuration(c5, "hold_duration", "hold_duration", PyFloat(0), CatchValueType)
            IN Finish(base, c6)
    IN Body(BaseInit(PyStr(ClickTYPE), params, condition_id, next_met, next_not_met, is_absolute, fallback))

\* PressKeyAction.__init__
PressKeyAction(params, condition_id, next_met, next_not_met, is_absolute, fallback) ==
    LET Body(base) ==
            LET c0 == Begin(base.val)
                c1 == SetStr(c0, "key_name", "key")
                c2 == RequireAll(c1, {"key_name"}, EmptyKeyError)
                c3 == SetDuration(c2, "delay_before", "delay_before", PyFloat(0), CatchException)
            IN Finish(base, c3)
    IN Body(BaseInit(PyStr(PressKeyTYPE), params, condition_id, next_met, next_not_met, is_absolute, fallback))

\* MoveMouseAction.__init__
MoveMouseAction(params, condition_id, next_met, next_not_met, is_absolute, fallback) ==
    LET Body(base) ==
            LET c0 == Begin(base.val)
                c1 == SetInt(c0, "x", "x", PyInt(0), CatchValueType)
                c2 == SetInt(c1, "y", "y", PyInt(0), CatchValueType)
                c3 == SetDuration(c2, "duration", "duration", PyFloat(1), CatchValueType)
                c4 == SetDuration(c3, "delay_before", "delay_before", PyFloat(0), CatchValueType)
            IN Finish(base, c4)
    IN Body(BaseInit(PyStr(MoveMouseTYPE), params, condition_id, next_met, next_not_met, is_absolute, fallback))

\* DragAction.__init__
DragAction(params, condition_id, next_met, next_not_met, is_absolute, fallback) ==
    LET Body(base) ==
            LET c0 == Begin(base.val)
                c1 == SetInt(c0, "start_x", "x", PyInt(0), CatchValueType)
                c2 == SetInt(c1, "start_y", "y", PyInt(0), CatchValueType)
                c3 == SetInt(c2, "end_x", "swipe_x", PyInt(0), CatchValueType)
                c4 == SetInt(c3, "end_y", "swipe_y", PyInt(0), CatchValueType)
                c5 == SetChoice(c4, "button", "button", LeftButton, Buttons)
                c6 == SetDuration(c5, "duration", "duration", PyFloat(10), CatchValueType)
                c7 == SetDuration(c6, "delay_before", "delay_before", PyFloat(0), CatchValueType)
            IN Finish(base, c7)
    IN Body(BaseInit(PyStr(DragTYPE), params, condition_id, next_met, next_not_met, is_absolute, fallback))

\* WaitAction.__init__
WaitAction(params, condition_id, next_met, next_not_met, is_absolute, fallback) ==
    LET Body(base) ==
            LET c0 == Begin(base.val)
                c1 == SetDuration(c0, "duration", "duration", PyFloat(10), CatchValueType)
                c2 == SetDuration(c1, "delay_before", "delay_before", PyFloat(0), CatchValueType)
            IN Finish(base, c2)
    IN Body(BaseInit(PyStr(WaitTYPE), params, condition_id, next_met, next_not_met, is_absolute, fallback))

\* KeyDownAction.__init__
KeyDownAction(params, condition_id, next_met, next_not_met, is_absolute, fallback) ==
    LET Body(base) ==
            LET c0 == Begin(base.val)
                c1 == SetStr(c0, "key_name", "key")
                c2 == RequireAll(c1, {"key_name"}, EmptyKeyError)
                c3 == SetDuration(c2, "delay_before", "delay_before", PyFloat(0), CatchException)
            IN Finish(base, c3)
    IN Body(BaseInit(PyStr(KeyDownTYPE), params, condition_id, next_met, next_not_met, is_absolute, fallback))

\* KeyUpAction.__init__
KeyUpAction(params, condition_id, next_met, next_not_met, is_absolute, fallback) ==
    LET Body(base) ==
            LET c0 == Begin(base.val)
                c1 == SetStr(c0, "key_name", "key")
                c2 == RequireAll(c1, {"key_name"}, EmptyKeyError)
                c3 == SetDuration(c2, "delay_before", "delay_before", PyFloat(0), CatchException)
            IN Finish(base, c3)
    IN Body(BaseInit(PyStr(KeyUpTYPE), params, condition_id, next_met, next_not_met, is_absolute, fallback))

\* TextEntryAction.__init__
TextEntryAction(params, condition_id, next_met, next_not_met, is_absolute, fallback) ==
    LET Body(base) ==
            LET c0 == Begin(base.val)
                c1 == SetStr(c0, "text_to_entry", "text")
                c2 == SetDuration(c1, "delay_before", "delay_before", PyFloat(0), CatchException)
            IN Finish(base, c2)
    IN Body(BaseInit(PyStr(TextEntryTYPE), params, condition_id, next_met, next_not_met, is_absolute, fallback))

\* ModifiedKeyStrokeAction.__init__
ModifiedKeyStrokeAction(params, condition_id, next_met, next_not_met, is_absolute, fallback) ==
    LET Body(base) ==
            LET c0 == Begin(base.val)
                c1 == SetStr(c0, "modifier_key", "modifier")
                c2 == SetStr(c1, "main_key", "main_key")
                c3 == RequireAll(c2, {"modifier_key", "main_key"}, EmptyModifierError)
                c4 == SetDuration(c3, "delay_before", "delay_before", PyFloat(0), CatchException)
            IN Finish(base, c4)
    IN Body(BaseInit(PyStr(ModifiedKeyStrokeTYPE), params, condition_id, next_met, next_not_met, is_absolute, fallback))

(***************************************************************************)
(* Serialisation.  A dictionary handed to from_dict / create_action is     *)
(* [isdict, type, params, condition_id, next_met, next_not_met,            *)
(*  is_absolute, fallback], a missing key holding Absent.                  *)
(***************************************************************************)
NotADict == [isdict |-> FALSE, type |-> Absent, params |-> AbsentVal, condition_id |-> Absent,
             next_met |-> Absent, next_not_met |-> Absent, is_absolute |-> Absent,
             fallback |-> FbAbsent]

\* Action.to_dict without the fallback_action_sequence entry
to_dict_without_fallback(a) ==
    [isdict |-> TRUE,
     type |-> PyStr(a.type),
     params |-> DictVal(a.params),
     condition_id |-> a.condition_id,
     next_met |-> a.next_met,
     next_not_met |-> a.next_not_met,
     is_absolute |-> PyBool(a.is_absolute),
     fallback |-> FbAbsent]

\* Action.to_dict
to_dict(a) ==
    [isdict |-> TRUE,
     type |-> PyStr(a.type),
     params |-> DictVal(a.params),
     condition_id |-> a.condition_id,
     next_met |-> a.next_met,
     next_not_met |-> a.next_not_met,
     is_absolute |-> PyBool(a.is_absolute),
     fallback |-> a.fallback]

\* data.get(key) and data.get(key, default) for a key holding a plain value
DataGet(v, default) == IF v.t = "absent" THEN default ELSE v

\* condition_id normalisation of Action.from_dict
\* from_dict passing no condition_id to the constructor
FromDictConditionId_dropped(condition_id_data) == PyNone

FromDictConditionId(condition_id_data) ==
    LET Keep(stripped) == IF stripped # <<>> THEN PyStr(stripped) ELSE PyNone
    IN IF condition_id_data.t = "str" THEN Keep(Strip(condition_id_data.s)) ELSE PyNone

\* safe_int_or_none returning the absolute value instead of max(0, ...)
safe_int_or_none_abs(value) ==
    LET Store(int_val) == IF ~int_val.ok THEN PyNone
                          ELSE IF int_val.val.t = "int" THEN PyInt(Abs(int_val.val.i))
                          ELSE PyNone
        Convert(val_str) == Store(IF Strip(val_str) # <<>> THEN ParseInt(val_str)
                                  ELSE Ok(PyNone))
    IN Convert(IF value.t # "none" THEN PyStrOf(value) ELSE <<>>)

\* safe_int_or_none, the helper nested in Action.from_dict
safe_int_or_none(value) ==
    LET Store(int_val) == IF ~int_val.ok THEN PyNone
                          ELSE IF int_val.val.t = "int" THEN PyInt(Max(0, int_val.val.i))
                          ELSE PyNone
        Convert(val_str) == Store(IF Strip(val_str) # <<>> THEN ParseInt(val_str)
                                  ELSE Ok(PyNone))
    IN Convert(IF value.t # "none" THEN PyStrOf(value) ELSE <<>>)

\* the loop of Action.from_dict over fallback_action_sequence
RECURSIVE FromDictFallbackLoop(_)
FromDictFallbackLoop(items) ==
    IF items = <<>> THEN <<>>
    ELSE (IF Head(items).isdict THEN <<Head(items)>> ELSE <<>>)
         \o FromDictFallbackLoop(Tail(items))
FromDictFallback(fallback) ==
    LET Keep(valid_fallbacks) == IF valid_fallbacks # <<>> THEN FbList(valid_fallbacks)
                                 ELSE FbNone
    IN IF fallback.t = "list" THEN Keep(FromDictFallbackLoop(fallback.items)) ELSE FbNone

\* action_class_map[action_type](...) of Action.from_dict
ActionClass(action_type, params, condition_id, next_met, next_not_met, is_absolute, fallback) ==
    CASE action_type = ClickTYPE ->
           ClickAction(params, condition_id, next_met, next_not_met, is_absolute, fallback)
      [] action_type = PressKeyTYPE ->
           PressKeyAction(params, condition_id, next_met, next_not_met, is_absolute, fallback)
      [] action_type = MoveMouseTYPE ->
           MoveMouseAction(params, condition_id, next_met, next_not_met, is_absolute, fallback)
      [] action_type = DragTYPE ->
           DragAction(params, condition_id, next_met, next_not_met, is_absolute, fallback)
      [] action_type = WaitTYPE ->
           WaitAction(params, condition_id, next_met, next_not_met, is_absolute, fallback)
      [] action_type = KeyDownTYPE ->
           KeyDownAction(params, condition_id, next_met, next_not_met, is_absolute, fallback)
      [] action_type = KeyUpTYPE ->
           KeyUpAction(params, condition_id, next_met, next_not_met, is_absolute, fallback)
      [] action_type = TextEntryTYPE ->
           TextEntryAction(params, condition_id, next_met, next_not_met, is_absolute, fallback)
      [] action_type = ModifiedKeyStrokeTYPE ->
           ModifiedKeyStrokeAction(params, condition_id, next_met, next_not_met, is_absolute,
                                   fallback)

\* Action.from_dict
from_dict(data) ==
    IF ~data.isdict THEN Fail("ValueError")
    ELSE LET action_type == DataGet(data.type, PyNone)
             params == IF data.params.t = "dict" THEN data.params ELSE DictVal(EmptyDict)
             condition_id_str == FromDictConditionId(DataGet(data.condition_id, PyNone))
             next_if_met == safe_int_or_none(DataGet(data.next_met, PyNone))
             next_if_not_met == safe_int_or_none(DataGet(data.next_not_met, PyNone))
             is_absolute_data == DataGet(data.is_absolute, PyBool(FALSE))
             actual_fallback_sequence == FromDictFallback(data.fallback)
         IN IF action_type.t # "str" \/ action_type.s = <<>> THEN Fail("ValueError")
            ELSE IF action_type.s \in KnownTypes
            THEN LET Built(action) == IF action.ok THEN action ELSE Fail("ValueError")
                 IN Built(ActionClass(action_type.s, params, condition_id_str, next_if_met,
                                      next_if_not_met, is_absolute_data,
                                      actual_fallback_sequence))
            ELSE NewAction(action_type, params, condition_id_str, next_if_met,
                           next_if_not_met, is_absolute_data, actual_fallback_sequence)

ErrorCreating == <<"e", "r", "r", "o", "r", "_", "c", "r", "e", "a", "t", "i", "n", "g", "_">>
UnexpectedErrorCreating == <<"u", "n", "e", "x", "p", "e", "c", "t", "e", "d", "_">> \o ErrorCreating
InvalidDataType == <<"i", "n", "v", "a", "l", "i", "d", "_", "d", "a", "t", "a", "_", "t", "y",
                     "p", "e", "_", "f", "o", "r", "_", "f", "a", "c", "t", "o", "r", "y">>
Unknown == <<"u", "n", "k", "n", "o", "w", "n">>

\* the placeholder built by create_action's two except clauses
Placeholder(prefix, data) ==
    NewAction(PyStr(prefix \o PyStrOf(DataGet(data.type, PyStr(Unknown)))),
              IF data.params.t = "absent" THEN DictVal(EmptyDict) ELSE data.params,
              DataGet(data.condition_id, PyNone),
              PyNone, PyNone,
              DataGet(data.is_absolute, PyBool(FALSE)),
              IF data.fallback.t = "list" THEN data.fallback ELSE FbNone)

\* create_action
create_action(data) ==
    IF ~data.isdict
    THEN NewAction(PyStr(InvalidDataType), DictVal(EmptyDict), PyNone, PyNone, PyNone,
                   PyBool(FALSE), FbNone)
    ELSE LET Try(action) == IF action.ok THEN action
                            ELSE IF action.exc = "ValueError"
                            THEN Placeholder(ErrorCreating, data)
                            ELSE Placeholder(UnexpectedErrorCreating, data)
         IN Try(from_dict(data))

(***************************************************************************)
(* Job run conditions.  A run-condition params dict is a map over RcKeys.  *)
(***************************************************************************)
RcKeys == {"count", "duration"}
RcEmpty == [k \in RcKeys |-> Absent]
RcDict(d) == [t |-> "dict", d |-> d, truthy |-> \E k \in RcKeys : d[k] # Absent]
RcNone == [t |-> "none", d |-> RcEmpty, truthy |-> FALSE]
RcAbsent == [t |-> "absent", d |-> RcEmpty, truthy |-> FALSE]
RcOther(truthy) == [t |-> "other", d |-> RcEmpty, truthy |-> truthy]

InfiniteTYPE == <<"i", "n", "f", "i", "n", "i", "t", "e">>
CountTYPE == <<"c", "o", "u", "n", "t">>
TimeTYPE == <<"t", "i", "m", "e">>

NoCondition == [type |-> <<>>, params |-> RcEmpty, target_count |-> 0,
                duration_seconds |-> PyFloat(0)]
RcFail(e) == [ok |-> FALSE, exc |-> e, val |-> NoCondition]

\* JobRunCondition.__init__
JobRunConditionInit(type, params) ==
    IF type.t # "str" \/ type.s = <<>> THEN RcFail("ValueError")
    \* self.params = params or {}; a value that is still no dict reaches the
    \* warning, whose f-string calls type(params) with the parameter `type`, a str
    ELSE IF params.truthy /\ params.t # "dict" THEN RcFail("TypeError")
    ELSE Ok([type |-> type.s,
             params |-> IF params.truthy THEN params.d ELSE RcEmpty,
             target_count |-> 0,
             duration_seconds |-> PyFloat(0)])

\* InfiniteRunCondition.__init__
InfiniteRunCondition(params) == JobRunConditionInit(PyStr(InfiniteTYPE), params)

\* CountRunCondition.__init__ storing int(count) without max(1, ...)
CountRunCondition_no_min(params) ==
    LET Store(base, count) ==
            IF count.ok
            THEN Ok([base.val EXCEPT !.target_count = count.val.i,
                                     !.params["count"] = PyInt(count.val.i)])
            ELSE IF count.exc \in {"ValueError", "TypeError"}
            THEN Ok([base.val EXCEPT !.target_count = 1, !.params["count"] = PyInt(1)])
            ELSE RcFail(count.exc)
        Try(base) == IF ~base.ok THEN base
                     ELSE Store(base, PyIntOf(Get(base.val.params, "count", PyInt(1))))
    IN Try(JobRunConditionInit(PyStr(CountTYPE), params))

\* CountRunCondition.__init__
CountRunCondition(params) ==
    LET Store(base, count) ==
            IF count.ok
            THEN Ok([base.val EXCEPT !.target_count = Max(1, count.val.i),
                                     !.params["count"] = PyInt(Max(1, count.val.i))])
            ELSE IF count.exc \in {"ValueError", "TypeError"}
            THEN Ok([base.val EXCEPT !.target_count = 1, !.params["count"] = PyInt(1)])
            ELSE RcFail(count.exc)
        Try(base) == IF ~base.ok THEN base
                     ELSE Store(base, PyIntOf(Get(base.val.params, "count", PyInt(1))))
    IN Try(JobRunConditionInit(PyStr(CountTYPE), params))

\* TimeRunCondition.__init__ (durations in tenths of a second)
TimeRunCondition(params) ==
    LET Store(base, duration) ==
            IF duration.ok
            THEN Ok([base.val EXCEPT !.duration_seconds = FloatMax(1, duration.val),
                                     !.params["duration"] = FloatMax(1, duration.val)])
            ELSE IF duration.exc \in {"ValueError", "TypeError"}
            THEN Ok([base.val EXCEPT !.duration_seconds = PyFloat(600),
                                     !.params["duration"] = PyFloat(600)])
            ELSE RcFail(duration.exc)
        Try(base) == IF ~base.ok THEN base
                     ELSE Store(base, PyFloatOf(Get(base.val.params, "duration", PyFloat(600))))
    IN Try(JobRunConditionInit(PyStr(TimeTYPE), params))

\* InfiniteRunCondition.check_continue
InfiniteCheckContinue(cond, context) == TRUE

\* CountRunCondition.check_continue comparing with <= instead of <
CountCheckContinue_le(cond, context) == context.run_count <= cond.target_count

\* CountRunCondition.check_continue
CountCheckContinue(cond, context) == context.run_count < cond.target_count

\* TimeRunCondition.check_continue comparing with <= instead of <
TimeCheckContinue_le(cond, context, now) ==
    IF context.start_time = 0 THEN FALSE
    ELSE (now - context.start_time) < cond.duration_seconds.i
         \/ (now - context.start_time) = cond.duration_seconds.i
         \/ IsInf(cond.duration_seconds)

\* TimeRunCondition.check_continue; now is time.monotonic(), in tenths
TimeCheckContinue(cond, context, now) ==
    IF context.start_time = 0 THEN FALSE
    ELSE LET elapsed_time == now - context.start_time
         IN FloatLess(elapsed_time, cond.duration_seconds)

\* check_continue, dispatched on the condition's class
check_continue(cond, context, now) ==
    CASE cond.type = CountTYPE -> CountCheckContinue(cond, context)
      [] cond.type = TimeTYPE -> TimeCheckContinue(cond, context, now)
      [] OTHER -> InfiniteCheckContinue(cond, context)

\* create_job_run_condition with its try / except left out
create_job_run_condition_no_except(rcdata) ==
    IF ~rcdata.isdict THEN InfiniteRunCondition(RcNone)
    ELSE LET condition_type == DataGet(rcdata.type, PyNone)
             params == IF rcdata.params.t = "absent" THEN RcDict(RcEmpty) ELSE rcdata.params
         IN IF condition_type.t # "str" \/ condition_type.s = <<>>
            THEN InfiniteRunCondition(RcNone)
            ELSE CASE condition_type.s = InfiniteTYPE -> InfiniteRunCondition(params)
                   [] condition_type.s = CountTYPE -> CountRunCondition(params)
                   [] condition_type.s = TimeTYPE -> TimeRunCondition(params)
                   [] OTHER -> InfiniteRunCondition(RcNone)

\* create_job_run_condition; rcdata is [isdict, type, params]
create_job_run_condition(rcdata) ==
    IF ~rcdata.isdict THEN InfiniteRunCondition(RcNone)
    ELSE LET condition_type == DataGet(rcdata.type, PyNone)
             params == IF rcdata.params.t = "absent" THEN RcDict(RcEmpty) ELSE rcdata.params
         IN IF condition_type.t # "str" \/ condition_type.s = <<>>
            THEN InfiniteRunCondition(RcNone)
            ELSE LET Try(built) == IF built.ok THEN built ELSE InfiniteRunCondition(RcNone)
                 IN Try(CASE condition_type.s = InfiniteTYPE -> InfiniteRunCondition(params)
                          [] condition_type.s = CountTYPE -> CountRunCondition(params)
                          [] condition_type.s = TimeTYPE -> TimeRunCondition(params)
                          [] OTHER -> InfiniteRunCondition(RcNone))

(***************************************************************************)
(* State.                                                                  *)
(*   data, made, again     a dictionary, the action built from it and the  *)
(*                         action read back from that action's to_dict     *)
(*   rcdata, cond, context, now, last                                      *)
(*                         a run-condition dictionary, the condition built *)
(*                         from it, the JobContext, the monotonic clock    *)
(*                         and the last check_continue call                *)
(*   host                  the position of a host loop over the run        *)
(*                         condition and the passes it has performed       *)
(*   act                   the Action whose execute() is called            *)
(*   bridge, condClass     the module flags _BridgeImported and            *)
(*                         _ConditionClassImported                         *)
(*   registry              what the condition manager returns for the      *)
(*                         action's condition_id                           *)
(*   cache                 the action's _condition_instance_cache          *)
(*   stopArg, mgr          the job_stop_event and condition_manager        *)
(*                         arguments of the call in progress               *)
(*   stopSet               the flag of the job's stop event                *)
(*   pc                    the position of the call in execute()           *)
(*   condition_result      execute()'s local of that name                  *)
(*   checked, lookups, calls, sleeps                                       *)
(*                         what the call in progress has done: the outcome *)
(*                         of check(), the lookups made, the               *)
(*                         os-interaction calls made, the sleeps started   *)
(*   ret, how              the outcome of the call and how it ended        *)
(*   execs                 the number of execute() calls begun             *)
(*   stopAtCall            whether the stop event was given and set when   *)
(*                         the call in progress began                      *)
(*   coreExc               the exception _execute_core_logic raised in the *)
(*                         call in progress, "" when it raised none        *)
(*   lookupLog             the lookups made on the condition manager over  *)
(*                         all calls: the id passed, the object returned   *)
(*   stopDuring            whether the stop event given to the call in     *)
(*                         progress was set at some moment of the call     *)
(*   moveExc               the exception Drag's preliminary move raised in *)
(*                         the call in progress, "" when it raised none    *)
(*   stopAtOsCall          whether the stop event given to the call in     *)
(*                         progress was set when its last os-interaction   *)
(*                         call was made                                   *)
(***************************************************************************)
VARIABLES data, made, again, rcdata, cond, context, now, last, host,
          act, bridge, condClass, registry, cache, stopArg, mgr, stopSet, pc,
          condition_result, checked, lookups, lookupLog,
                   calls, sleeps, ret, how, execs,
          stopAtCall, coreExc, stopDuring, moveExc, stopAtOsCall

factoryVars == <<data, made, again>>
runVars == <<rcdata, cond, context, now, last, host>>
execVars == <<act, bridge, condClass, registry, cache, stopArg, mgr, stopSet, pc,
              condition_result, checked, lookups, lookupLog,
                   calls, sleeps, ret, how, execs,
              stopAtCall, coreExc, stopDuring, moveExc, stopAtOsCall>>
vars == <<data, made, again, rcdata, cond, context, now, last, host,
          act, bridge, condClass, registry, cache, stopArg, mgr, stopSet, pc,
          condition_result, checked, lookups, lookupLog,
                   calls, sleeps, ret, how, execs,
          stopAtCall, coreExc, stopDuring, moveExc, stopAtOsCall>>

NotCalled == [op |-> "none", ok |-> FALSE, exc |-> "", val |-> NoAction]
Called(op, r) == [op |-> op, ok |-> r.ok, exc |-> r.exc, val |-> r.val]
RcNotCalled == [op |-> "none", ok |-> FALSE, exc |-> "", val |-> NoCondition]
NoCheck == [called |-> FALSE, result |-> FALSE, run_count |-> 0, now |-> 0]
NoHost == [pc |-> "none", passes |-> 0]

NoObject == [name |-> "none", id |-> <<>>, isCondition |-> FALSE]
NoReturn == [kind |-> "none", value |-> FALSE, exc |-> ""]
ExecIdle == /\ act = NoAction
            /\ bridge = TRUE
            /\ condClass = TRUE
            /\ registry = NoObject
            /\ cache = NoObject
            /\ stopArg = "none"
            /\ mgr = "none"
            /\ stopSet = FALSE
            /\ pc = "idle"
            /\ condition_result = TRUE
            /\ checked = "none"
            /\ lookups = 0
            /\ lookupLog = <<>>
            /\ calls = <<>>
            /\ sleeps = <<>>
            /\ ret = NoReturn
            /\ how = "none"
            /\ execs = 0
            /\ stopAtCall = FALSE
            /\ coreExc = ""
            /\ stopDuring = FALSE
            /\ moveExc = ""
            /\ stopAtOsCall = FALSE
FactoryIdle == data = NotADict /\ made = NotCalled /\ again = NotCalled
RunIdle == /\ rcdata = [isdict |-> FALSE, type |-> Absent, params |-> RcAbsent]
           /\ cond = RcNotCalled
           /\ context = [run_count |-> 0, start_time |-> 0]
           /\ now = 0
           /\ last = NoCheck
           /\ host = NoHost

(***************************************************************************)
(* Run conditions: a dictionary is drawn, create_job_run_condition builds  *)
(* the condition, and a host advances the clock, completes passes and asks *)
(* check_continue.                                                         *)
(***************************************************************************)
RcTypes == {Absent, PyNone, PyStr(<<>>), PyInt(1), PyStr(InfiniteTYPE), PyStr(CountTYPE),
            PyStr(TimeTYPE), PyStr(<<"C", "o", "u", "n", "t">>)}
CountValues == {PyInt(n) : n \in -1..MaxCount}
                 \cup {PyStr(<<"2">>), PyStr(<<"a", "b", "c">>), PyNone, PyFloat(25), PyInf(1)}
DurationValues == {PyFloat(t) : t \in 0..MaxDuration}
                    \cup {PyInt(-5), PyStr(<<"0", ".", "3">>), PyStr(<<"x">>), PyNone, PyInf(1)}
RcParams == {RcAbsent, RcNone, RcOther(TRUE), RcOther(FALSE), RcDict(RcEmpty)}
              \cup {RcDict([RcEmpty EXCEPT !["count"] = c]) : c \in CountValues}
              \cup {RcDict([RcEmpty EXCEPT !["duration"] = d]) : d \in DurationValues}
RcInputs == {[isdict |-> FALSE, type |-> Absent, params |-> RcAbsent]}
              \cup {[isdict |-> TRUE, type |-> t, params |-> p] : t \in RcTypes, p \in RcParams}

RunInit ==
    /\ FactoryIdle
    /\ ExecIdle
    /\ rcdata \in RcInputs
    /\ cond = RcNotCalled
    /\ \E st \in 0..MaxStart : context = [run_count |-> 0, start_time |-> st]
    /\ now \in context.start_time..(context.start_time + 1)
    /\ last = NoCheck
    /\ host = NoHost

\* the host builds the job's run condition
RcCreate ==
    /\ cond.op = "none"
    /\ cond' = Called("create_job_run_condition", create_job_run_condition(rcdata))
    /\ UNCHANGED <<factoryVars, execVars, rcdata, context, now, last, host>>

\* the monotonic clock advances
RcTick ==
    /\ now < MaxClock
    /\ now' = now + 1
    /\ UNCHANGED <<factoryVars, execVars, rcdata, cond, context, last, host>>

\* the host completes a pass
RcPass ==
    /\ cond.ok
    /\ context.run_count < MaxRunCount
    /\ context' = [context EXCEPT !.run_count = @ + 1]
    /\ UNCHANGED <<factoryVars, execVars, rcdata, cond, now, last, host>>

\* the host asks the run condition whether to loop again
RcCheck ==
    /\ cond.ok
    /\ last' = [called |-> TRUE, result |-> check_continue(cond.val, context, now),
                run_count |-> context.run_count, now |-> now]
    /\ UNCHANGED <<factoryVars, execVars, rcdata, cond, context, now, host>>

RunNext == RcCreate \/ RcTick \/ RcPass \/ RcCheck
SpecRun == RunInit /\ [][RunNext]_vars

(***************************************************************************)
(* A host loop over a run condition: it starts with run_count 0, runs a    *)
(* pass, adds 1 to run_count after the pass, asks check_continue and stops *)
(* at the first False.  The job may be cancelled from outside at any time. *)
(***************************************************************************)
LoopInit ==
    /\ FactoryIdle
    /\ ExecIdle
    /\ rcdata \in RcInputs
    /\ cond = RcNotCalled
    /\ \E st \in 0..MaxStart : context = [run_count |-> 0, start_time |-> st]
    /\ now \in context.start_time..(context.start_time + 1)
    /\ last = NoCheck
    /\ host = NoHost

\* the host builds the job's run condition and enters the loop
LoopStart ==
    /\ host.pc = "none"
    /\ cond' = Called("create_job_run_condition", create_job_run_condition(rcdata))
    /\ host' = [pc |-> "pass", passes |-> 0]
    /\ UNCHANGED <<factoryVars, execVars, rcdata, context, now, last>>

\* the host completes a pass and adds 1 to run_count
LoopPass ==
    /\ host.pc = "pass"
    /\ context.run_count < MaxRunCount
    /\ context' = [context EXCEPT !.run_count = @ + 1]
    /\ host' = [pc |-> "check", passes |-> host.passes + 1]
    /\ UNCHANGED <<factoryVars, execVars, rcdata, cond, now, last>>

\* the host asks check_continue and stops at the first False
LoopCheck ==
    /\ host.pc = "check"
    /\ last' = [called |-> TRUE, result |-> check_continue(cond.val, context, now),
                run_count |-> context.run_count, now |-> now]
    /\ host' = [host EXCEPT !.pc = IF last'.result THEN "pass" ELSE "stopped"]
    /\ UNCHANGED <<factoryVars, execVars, rcdata, cond, context, now>>

\* the job is cancelled from outside
LoopCancel ==
    /\ host.pc \in {"pass", "check"}
    /\ host' = [host EXCEPT !.pc = "cancelled"]
    /\ UNCHANGED <<factoryVars, execVars, rcdata, cond, context, now, last>>

\* the monotonic clock advances
LoopTick ==
    /\ now < MaxClock
    /\ now' = now + 1
    /\ UNCHANGED <<factoryVars, execVars, rcdata, cond, context, last, host>>

LoopNext == LoopStart \/ LoopPass \/ LoopCheck \/ LoopCancel \/ LoopTick
SpecLoop == LoopInit /\ [][LoopNext]_vars

(***************************************************************************)
(* Construction: a dictionary is drawn, from_dict or create_action builds  *)
(* an action from it, and the action is written with to_dict and read back *)
(* with from_dict.                                                         *)
(***************************************************************************)
Teleport == <<"t", "e", "l", "e", "p", "o", "r", "t">>
TypeValues == {Absent, PyNone, PyStr(<<>>), PyInt(5), PyStr(Teleport)}
                \cup {PyStr(t) : t \in KnownTypes}
IntValues == {PyInt(n) : n \in -1..MaxCoord}
               \cup {Absent, PyNone, PyStr(<<"5">>), PyStr(<<"a", "b", "c">>), PyFloat(15),
                     PyInf(1)}
DelayValues == {PyFloat(t) : t \in 0..MaxDelay}
                 \cup {Absent, PyNone, PyInt(2), PyFloat(-50), PyStr(<<"0", ".", "5">>),
                       PyStr(<<"x">>), PyInf(1)}
KeyValues == {Absent, PyNone, PyStr(<<>>), PyStr(<<"a">>), PyStr(<<"F", "1">>), PyInt(0)}
ButtonValues == {Absent, PyStr(<<"r", "i", "g", "h", "t">>), PyStr(<<"L", "E", "F", "T">>),
                 PyStr(<<"f", "o", "o">>), PyInt(1)}
ClickTypeValues == {Absent, PyStr(<<"d", "o", "u", "b", "l", "e">>), PyStr(<<"U", "p">>),
                    PyStr(<<"t", "r", "i", "p", "l", "e">>)}
ValuesOf(key) ==
    CASE key \in {"x", "y", "swipe_x", "swipe_y"} -> IntValues
      [] key \in {"delay_before", "hold_duration", "duration"} -> DelayValues
      [] key \in {"key", "text", "modifier", "main_key"} -> KeyValues
      [] key = "button" -> ButtonValues
      [] key = "click_type" -> ClickTypeValues

\* dicts that set one key, and dicts that set a pair of keys of one variant
OneKeyDicts == UNION {{[EmptyDict EXCEPT ![k] = v] : v \in ValuesOf(k)} : k \in ParamKeys}
KeyPairs == {<<"x", "button">>, <<"x", "delay_before">>, <<"button", "hold_duration">>,
             <<"key", "delay_before">>, <<"modifier", "main_key">>,
             <<"duration", "delay_before">>, <<"swipe_x", "duration">>}
TwoKeyDicts == UNION {{[EmptyDict EXCEPT ![kp[1]] = v, ![kp[2]] = w] :
                          v \in ValuesOf(kp[1]), w \in ValuesOf(kp[2])} : kp \in KeyPairs}
ParamsValues == {AbsentVal, NoneVal, OtherVal(TRUE), OtherVal(FALSE)}
                  \cup {DictVal(d) : d \in OneKeyDicts \cup TwoKeyDicts}

ConditionIdValues == {Absent, PyNone, PyInt(3), PyStr(<<>>), PyStr(<<" ", " ">>),
                      PyStr(<<"c", "1">>), PyStr(<<" ", "c", "1", " ">>)}
JumpValues == {PyInt(n) : n \in -2..MaxJump}
                \cup {Absent, PyNone, PyStr(<<"2">>), PyStr(<<"-", "2">>), PyStr(<<>>),
                      PyStr(<<"a", "b", "c">>), PyStr(<<" ", "1", " ">>), PyFloat(20),
                      PyBool(TRUE)}
FewJumpValues == {Absent, PyInt(1), PyStr(<<"-", "2">>), PyStr(<<"a", "b", "c">>)}
IsAbsoluteValues == {Absent, PyBool(TRUE), PyBool(FALSE), PyInt(0), PyStr(<<"y">>)}

\* an entry nested depth deep: each level holds one valid entry and, below the
\* first level, entries that the first level would drop
RECURSIVE Nested(_)
Nested(depth) ==
    FbEntry(PyStr(WaitTYPE),
            IF depth <= 1 THEN <<>>
            ELSE <<FbNotDict, FbEntry(Absent, <<>>), Nested(depth - 1)>>)
FallbackValues ==
    {FbAbsent, FbNone, FbOther, FbList(<<>>), FbList(<<FbNotDict>>),
     FbList(<<FbNotDict, FbEntry(Absent, <<>>), FbEntry(PyStr(WaitTYPE), <<>>),
              FbEntry(PyStr(<<>>), <<>>), FbEntry(PyStr(Teleport), <<>>)>>)}
      \cup {FbList(<<Nested(depth)>>) : depth \in 1..MaxDepth}
      \cup {FbList(<<FbEntry(PyInt(0), <<>>), FbEntry(PyInt(5), <<>>), FbNotDict>>)}

PlainDict(type, params) ==
    [isdict |-> TRUE, type |-> type, params |-> params, condition_id |-> Absent,
     next_met |-> Absent, next_not_met |-> Absent, is_absolute |-> Absent,
     fallback |-> FbAbsent]
WithFields(type, c, j, k, b, f) ==
    [PlainDict(type, DictVal(EmptyDict)) EXCEPT !.condition_id = c, !.next_met = j,
                                                !.next_not_met = k, !.is_absolute = b,
                                                !.fallback = f]
FactoryInputs ==
    {NotADict}
      \cup {PlainDict(t, p) : t \in TypeValues, p \in ParamsValues}
      \cup {WithFields(PyStr(ClickTYPE), c, j, k, Absent, FbAbsent) :
              c \in ConditionIdValues, j \in JumpValues, k \in FewJumpValues}
      \cup {WithFields(t, c, Absent, PyInt(1), b, f) :
              t \in {Absent, PyStr(WaitTYPE), PyStr(DragTYPE), PyStr(Teleport)},
              c \in {Absent, PyStr(<<" ", "c", "1", " ">>)},
              b \in IsAbsoluteValues, f \in FallbackValues}

FactoryInit ==
    /\ RunIdle
    /\ ExecIdle
    /\ data \in FactoryInputs
    /\ made = NotCalled
    /\ again = NotCalled

\* a loader calls Action.from_dict(data)
FromDictCall ==
    /\ made.op = "none"
    /\ made' = Called("from_dict", from_dict(data))
    /\ UNCHANGED <<runVars, execVars, data, again>>

\* a loader calls create_action(data)
CreateActionCall ==
    /\ made.op = "none"
    /\ made' = Called("create_action", create_action(data))
    /\ UNCHANGED <<runVars, execVars, data, again>>

\* a caller builds a variant directly, passing the dictionary's entries as
\* keyword arguments (a missing entry leaves the parameter's default)
ConstructorCall ==
    /\ made.op = "none"
    /\ data.isdict
    /\ data.type.t = "str"
    /\ data.type.s \in KnownTypes
    /\ made' = Called("constructor",
                      ActionClass(data.type.s,
                                  IF data.params.t = "absent" THEN NoneVal ELSE data.params,
                                  DataGet(data.condition_id, PyNone),
                                  DataGet(data.next_met, PyNone),
                                  DataGet(data.next_not_met, PyNone),
                                  DataGet(data.is_absolute, PyBool(FALSE)),
                                  IF data.fallback.t = "absent" THEN FbNone
                                  ELSE data.fallback))
    /\ UNCHANGED <<runVars, execVars, data, again>>

\* the action is saved with to_dict and loaded again with from_dict
RoundTrip ==
    /\ made.ok
    /\ again.op = "none"
    /\ again' = Called("round_trip", from_dict(to_dict(made.val)))
    /\ UNCHANGED <<runVars, execVars, data, made>>

FactoryNext == FromDictCall \/ CreateActionCall \/ ConstructorCall \/ RoundTrip
SpecFactory == FactoryInit /\ [][FactoryNext]_vars

(***************************************************************************)
(* Execution: execute() is called on an action, once or several times,     *)
(* while another thread may set the job's stop event.  The call is split   *)
(* where it reads the stop event, blocks, or calls the os-interaction      *)
(* client.                                                                 *)
(***************************************************************************)
C1Id == <<"c", "1">>
CondA == [name |-> "A", id |-> C1Id, isCondition |-> TRUE]
CondB == [name |-> "B", id |-> C1Id, isCondition |-> TRUE]
CondOtherId == [name |-> "X", id |-> <<"z">>, isCondition |-> TRUE]
NotCondition == [name |-> "N", id |-> C1Id, isCondition |-> FALSE]
RegistryValues == {NoObject, CondA, CondB, CondOtherId, NotCondition}
ManagerValues == {"none", "no_attr", "ok"}
CheckOutcomes == {"True", "False", "raise"}

GoodParams(delay, duration) ==
    [EmptyDict EXCEPT !["x"] = PyInt(1), !["y"] = PyInt(2),
                      !["swipe_x"] = PyInt(3), !["swipe_y"] = PyInt(4),
                      !["button"] = PyStr(<<"r", "i", "g", "h", "t">>),
                      !["click_type"] = PyStr(<<"d", "o", "u", "b", "l", "e">>),
                      !["key"] = PyStr(<<"a">>), !["text"] = PyStr(<<"h", "i">>),
                      !["modifier"] = PyStr(<<"c", "t", "r", "l">>),
                      !["main_key"] = PyStr(<<"c">>),
                      !["duration"] = PyFloat(duration),
                      !["delay_before"] = PyFloat(delay)]
BadParams ==
    [EmptyDict EXCEPT !["x"] = PyStr(<<"a", "b", "c">>), !["key"] = PyStr(<<>>),
                      !["modifier"] = PyStr(<<>>), !["duration"] = PyStr(<<"x">>),
                      !["delay_before"] = PyStr(<<"x">>)]
\* every duration given as a negative number, a float or an int
NegativeParams == [GoodParams(-MaxDelay, -1) EXCEPT !["hold_duration"] = PyInt(-3)]
ExecParams == {NegativeParams, GoodParams(0, MaxDelay), GoodParams(MaxDelay, MaxDelay),
               BadParams}
\* condition ids as a stored dictionary may spell them
OddIds == {Absent, PyInt(3), PyStr(<<>>), PyStr(<<" ", " ">>), PyStr(<<" ", "c", "1", " ">>)}
\* a stored action that carries jump directives and a fallback sequence
DirectedInput ==
    [PlainDict(PyStr(ClickTYPE), DictVal(GoodParams(0, MaxDelay)))
       EXCEPT !.condition_id = PyStr(C1Id), !.next_met = PyInt(1),
              !.next_not_met = PyInt(MaxJump), !.is_absolute = PyBool(TRUE),
              !.fallback = FbList(<<FbEntry(PyStr(WaitTYPE), <<>>)>>)]
\* the parameters of the stored actions that carry a condition_id
GatedParams == {GoodParams(MaxDelay, MaxDelay), BadParams}
ExecInputs == {[PlainDict(PyStr(t), DictVal(p)) EXCEPT !.condition_id = PyNone] :
                 t \in KnownTypes, p \in ExecParams}
                \cup {[PlainDict(PyStr(t), DictVal(p)) EXCEPT !.condition_id = PyStr(C1Id)] :
                        t \in KnownTypes, p \in GatedParams}
                \cup {[PlainDict(PyStr(ClickTYPE), DictVal(GoodParams(0, MaxDelay)))
                         EXCEPT !.condition_id = c] : c \in OddIds}
                \cup {DirectedInput}
\* the actions a job holds: those its loader could build
ExecActions == {from_dict(d).val : d \in {e \in ExecInputs : from_dict(e).ok}}

\* job_stop_event and job_stop_event.is_set()
StopIsSet(event, flag) == event = "event" /\ flag

\* line 104: condition_manager and hasattr(condition_manager, 'get_shared_condition_by_id')
ManagerUsable(manager) == manager = "ok"

\* lines 108-113: the cached object is used when its id is the action's
\* condition_id; otherwise the manager is asked and its answer is cached
\* the cache trusted only while the manager still returns the cached object
ResolveCondition_revalidated(action, cached, found) ==
    IF cached # NoObject /\ cached.id = action.condition_id.s /\ found = cached
    THEN [actual |-> cached, cache |-> cached, looked |-> 0, id |-> <<>>]
    ELSE [actual |-> found, cache |-> found, looked |-> 1, id |-> action.condition_id.s]

\* a lookup whose result is evaluated and not kept
ResolveCondition_not_stored(action, cached, found) ==
    IF cached # NoObject /\ cached.id = action.condition_id.s
    THEN [actual |-> cached, cache |-> cached, looked |-> 0, id |-> <<>>]
    ELSE [actual |-> found, cache |-> cached, looked |-> 1, id |-> action.condition_id.s]

\* every call looking the condition up
ResolveCondition_always_lookup(action, cached, found) ==
    [actual |-> found, cache |-> found, looked |-> 1, id |-> action.condition_id.s]

ResolveCondition(action, cached, found) ==
    IF cached # NoObject /\ cached.id = action.condition_id.s
    THEN [actual |-> cached, cache |-> cached, looked |-> 0, id |-> <<>>]
    ELSE [actual |-> found, cache |-> found, looked |-> 1, id |-> action.condition_id.s]

\* lines 114-128: whether check() is called on the resolved object
CheckIsCalled(actual, classImported) ==
    actual # NoObject /\ classImported /\ actual.isCondition

\* the condition outcome if an exception of check() counted as "met"
ConditionOutcome_fail_open(actual, classImported, outcome) ==
    IF CheckIsCalled(actual, classImported) THEN outcome # "False" ELSE FALSE

\* lines 114-128: the condition outcome, check() returning or raising `outcome`
ConditionOutcome(actual, classImported, outcome) ==
    IF CheckIsCalled(actual, classImported) THEN outcome = "True" ELSE FALSE

\* _interruptible_sleep always sleeping with time.sleep
interruptible_sleep_never(event, flag) == FALSE

\* lines 254-259: _interruptible_sleep of a positive duration is interrupted
\* when a stop event is given and stop_event.wait() finds it set
interruptible_sleep(event, flag) == IF event = "event" THEN flag ELSE FALSE

\* execute() returning at its pre-emption check whatever the stop event
Preempted_always(event, flag) == TRUE

\* execute() without its pre-emption check
Preempted_never(event, flag) == FALSE

\* line 134: the pre-emption check
Preempted(event, flag) == StopIsSet(event, flag)

\* an exception of the core logic logged and swallowed
CoreError_swallowed(result, exc) == [kind |-> "returned", value |-> FALSE, exc |-> ""]

\* lines 140-142: an exception of the core logic is logged and raised again
CoreError(result, exc) == [kind |-> "raised", value |-> FALSE, exc |-> exc]

\* execute() returning whether the simulated input was performed
Returned_performed(result, ending) ==
    [kind |-> "returned", value |-> result /\ ending = "performed", exc |-> ""]

\* lines 133, 136 and 145: execute() returns condition_result
Returned(result, ending) == [kind |-> "returned", value |-> result, exc |-> ""]

\* a Click that is handed is_absolute as well
OsCall_with_is_absolute(action) ==
    [fn |-> "simulate_click",
     args |-> <<action.attrs["x"], action.attrs["y"], action.is_absolute>>]

\* every variant calling simulate_click with its own arguments
OsCall_always_click(action) ==
    [fn |-> "simulate_click",
     args |-> CASE action.type = ClickTYPE ->
                     <<action.attrs["x"], action.attrs["y"], action.attrs["button"],
                       action.attrs["click_type"], action.attrs["hold_duration"]>>
                [] action.type \in {PressKeyTYPE, KeyDownTYPE, KeyUpTYPE} ->
                     <<action.attrs["key_name"]>>
                [] action.type = MoveMouseTYPE ->
                     <<action.attrs["x"], action.attrs["y"], action.attrs["duration"]>>
                [] action.type = DragTYPE ->
                     <<action.attrs["end_x"], action.attrs["end_y"], action.attrs["button"],
                       action.attrs["duration"]>>
                [] action.type = TextEntryTYPE -> <<action.attrs["text_to_entry"]>>
                [] action.type = ModifiedKeyStrokeTYPE ->
                     <<action.attrs["modifier_key"], action.attrs["main_key"]>>]

\* the os-interaction call of a variant's _execute_core_logic
OsCall(action) ==
    CASE action.type = ClickTYPE ->
           [fn |-> "simulate_click",
            args |-> <<action.attrs["x"], action.attrs["y"], action.attrs["button"],
                       action.attrs["click_type"], action.attrs["hold_duration"]>>]
      [] action.type = PressKeyTYPE ->
           [fn |-> "simulate_key_press", args |-> <<action.attrs["key_name"]>>]
      [] action.type = MoveMouseTYPE ->
           [fn |-> "simulate_move_mouse",
            args |-> <<action.attrs["x"], action.attrs["y"], action.attrs["duration"]>>]
      [] action.type = DragTYPE ->
           [fn |-> "simulate_drag",
            args |-> <<action.attrs["end_x"], action.attrs["end_y"], action.attrs["button"],
                       action.attrs["duration"]>>]
      [] action.type = KeyDownTYPE ->
           [fn |-> "simulate_key_down", args |-> <<action.attrs["key_name"]>>]
      [] action.type = KeyUpTYPE ->
           [fn |-> "simulate_key_up", args |-> <<action.attrs["key_name"]>>]
      [] action.type = TextEntryTYPE ->
           [fn |-> "simulate_text_entry", args |-> <<action.attrs["text_to_entry"]>>]
      [] action.type = ModifiedKeyStrokeTYPE ->
           [fn |-> "simulate_modified_key_stroke",
            args |-> <<action.attrs["modifier_key"], action.attrs["main_key"]>>]
\* DragAction's preliminary simulate_move_mouse(start_x, start_y, duration=0.05)
DragMoveCall(action) ==
    [fn |-> "simulate_move_mouse",
     args |-> <<action.attrs["start_x"], action.attrs["start_y"]>>]

\* the precondition check without its test of the bridge
Precondition_bridge_first(action, bridgeImported) ==
    IF action.type # WaitTYPE /\ ~bridgeImported THEN "RuntimeError"
    ELSE IF ~action.is_valid THEN "ValueError"
    ELSE ""

Precondition_no_bridge_check(action, bridgeImported) ==
    IF ~action.is_valid THEN "ValueError" ELSE ""

\* the precondition check that opens a variant's _execute_core_logic: the base
\* check (validity, then the bridge) for all but Wait, which checks validity only
Precondition(action, bridgeImported) ==
    IF ~action.is_valid THEN "ValueError"
    ELSE IF action.type # WaitTYPE /\ ~bridgeImported THEN "RuntimeError"
    ELSE ""

\* where the core logic goes once delay_before is over
AfterDelay(action) ==
    CASE action.type = WaitTYPE ->
           IF FloatPositive(action.attrs["duration"]) THEN "wait_main" ELSE "done"
      [] action.type = DragTYPE -> "drag_move"
      [] OTHER -> "call"

ExecInit ==
    /\ RunIdle
    /\ made = NotCalled
    /\ again = NotCalled
    \* the job's loader built the action from a stored dictionary
    /\ data \in ExecInputs
    /\ act \in ExecActions
    /\ act = from_dict(data).val
    /\ bridge \in BOOLEAN
    /\ condClass \in BOOLEAN
    \* registry is the manager's entry under the action's condition_id; there
    \* is none for an action without condition_id
    /\ registry \in (IF act.condition_id = PyNone THEN {NoObject} ELSE RegistryValues)
    /\ cache = NoObject
    /\ stopArg = "none"
    /\ mgr = "none"
    /\ stopSet = FALSE
    /\ pc = "idle"
    /\ condition_result = TRUE
    /\ checked = "none"
    /\ lookups = 0
    /\ lookupLog = <<>>
    /\ calls = <<>>
    /\ sleeps = <<>>
    /\ ret = NoReturn
    /\ how = "none"
    /\ execs = 0
    /\ stopAtCall = FALSE
    /\ coreExc = ""
    /\ stopDuring = FALSE
    /\ moveExc = ""
    /\ stopAtOsCall = FALSE

Running == pc \notin {"idle", "returned", "raised"}

\* execute() ends by returning condition_result
Return(result, ending) ==
    /\ pc' = "returned"
    /\ ret' = Returned(result, ending)
    /\ how' = ending
    /\ UNCHANGED coreExc
\* execute() ends by raising
RaiseFrom(result, exc) ==
    /\ pc' = "raised"
    /\ ret' = CoreError(result, exc)
    /\ how' = "raised"
    /\ coreExc' = exc
\* execute() goes on at position next
Goto(next) ==
    /\ pc' = next
    /\ UNCHANGED <<ret, how, coreExc>>
\* the core logic is over: lines 143-145
CoreDone(ending) == Return(condition_result, ending)

\* execute() is called and evaluates the condition: lines 99-133
ExecCondition ==
    /\ ~Running
    /\ execs < MaxExecs
    /\ execs' = execs + 1
    /\ \E event \in {"none", "event"}, manager \in ManagerValues, outcome \in CheckOutcomes :
         LET r == ResolveCondition(act, cache, registry)
             gated == act.condition_id # PyNone
             asked == gated /\ ManagerUsable(manager)
             called == asked /\ CheckIsCalled(r.actual, condClass)
             result == IF ~gated THEN TRUE
                       ELSE IF ~asked THEN FALSE
                       ELSE ConditionOutcome(r.actual, condClass, outcome)
         IN /\ stopArg' = event
            /\ stopAtCall' = StopIsSet(event, stopSet)
            /\ coreExc' = ""
            /\ stopDuring' = StopIsSet(event, stopSet)
            /\ moveExc' = ""
            /\ stopAtOsCall' = FALSE
            /\ mgr' = manager
            \* check() has an outcome only when it is called
            /\ (called \/ outcome = "True")
            /\ checked' = IF called THEN outcome ELSE "none"
            /\ cache' = IF asked THEN r.cache ELSE cache
            /\ lookups' = IF asked THEN r.looked ELSE 0
            /\ lookupLog' = IF asked /\ r.looked = 1
                            THEN Append(lookupLog, [id |-> r.id, found |-> r.actual])
                            ELSE lookupLog
            /\ condition_result' = result
            /\ calls' = <<>>
            /\ sleeps' = <<>>
            /\ IF ~result
               THEN /\ pc' = "returned"
                    /\ ret' = Returned(result, "not_met")
                    /\ how' = "not_met"
               ELSE /\ pc' = "preempt"
                    /\ ret' = NoReturn
                    /\ how' = "none"
    /\ UNCHANGED <<factoryVars, runVars, act, bridge, condClass, registry, stopSet>>

\* the pre-emption check: lines 134-136
ExecPreempt ==
    /\ pc = "preempt"
    /\ IF Preempted(stopArg, stopSet)
       THEN Return(condition_result, "preempted")
       ELSE Goto("core")
    /\ UNCHANGED <<factoryVars, runVars, act, bridge, condClass, registry, cache, stopArg,
                   mgr, stopSet, condition_result, checked, lookups, lookupLog,
                   calls, sleeps, execs, stopAtCall,
                   stopDuring, moveExc, stopAtOsCall>>

\* _execute_core_logic is entered: the precondition check, then delay_before
ExecCoreEnter ==
    /\ pc = "core"
    /\ LET failed == Precondition(act, bridge)
       IN IF failed # ""
          THEN RaiseFrom(condition_result, failed) /\ UNCHANGED sleeps
          ELSE IF FloatPositive(act.attrs["delay_before"])
          THEN Goto("delay") /\ sleeps' = Append(sleeps, "delay_before")
          ELSE IF AfterDelay(act) = "done"
          THEN CoreDone("performed") /\ UNCHANGED sleeps
          ELSE /\ Goto(AfterDelay(act))
               /\ sleeps' = IF AfterDelay(act) = "wait_main" THEN Append(sleeps, "duration")
                            ELSE sleeps
    /\ UNCHANGED <<factoryVars, runVars, act, bridge, condClass, registry, cache, stopArg,
                   mgr, stopSet, condition_result, checked, lookups, lookupLog,
                   calls, execs, stopAtCall,
                   stopDuring, moveExc, stopAtOsCall>>

\* _interruptible_sleep(delay_before) returns True: stop_event.wait found the
\* event set
ExecDelayInterrupted ==
    /\ pc = "delay"
    /\ interruptible_sleep(stopArg, stopSet)
    /\ CoreDone("cut_short")
    /\ UNCHANGED <<factoryVars, runVars, act, bridge, condClass, registry, cache, stopArg,
                   mgr, stopSet, condition_result, checked, lookups, lookupLog,
                   calls, sleeps, execs, stopAtCall,
                   stopDuring, moveExc, stopAtOsCall>>

\* _interruptible_sleep(delay_before) returns False: the time ran out
ExecDelayElapsed ==
    /\ pc = "delay"
    /\ ~interruptible_sleep(stopArg, stopSet)
    /\ IF AfterDelay(act) = "done"
       THEN CoreDone("performed") /\ UNCHANGED sleeps
       ELSE /\ Goto(AfterDelay(act))
            /\ sleeps' = IF AfterDelay(act) = "wait_main" THEN Append(sleeps, "duration")
                         ELSE sleeps
    /\ UNCHANGED <<factoryVars, runVars, act, bridge, condClass, registry, cache, stopArg,
                   mgr, stopSet, condition_result, checked, lookups, lookupLog,
                   calls, execs, stopAtCall,
                   stopDuring, moveExc, stopAtOsCall>>

\* the variant's os-interaction call, which returns or raises
ExecCall ==
    /\ pc = "call"
    /\ calls' = Append(calls, OsCall(act))
    /\ stopAtOsCall' = StopIsSet(stopArg, stopSet)
    /\ \E raises \in BOOLEAN :
         IF raises THEN RaiseFrom(condition_result, "BridgeError")
         ELSE CoreDone("performed")
    /\ UNCHANGED <<factoryVars, runVars, act, bridge, condClass, registry, cache, stopArg,
                   mgr, stopSet, condition_result, checked, lookups, lookupLog,
                   sleeps, execs, stopAtCall,
                   stopDuring, moveExc>>

\* an exception of Drag's preliminary move leaving the core logic
DragMoveError_propagates(exc) == exc

\* lines 372-373: try ... except Exception: pass
DragMoveError(exc) == ""

\* Drag's preliminary move, which returns or raises: lines 371-373
ExecDragMove ==
    /\ pc = "drag_move"
    /\ calls' = Append(calls, DragMoveCall(act))
    /\ stopAtOsCall' = StopIsSet(stopArg, stopSet)
    /\ \E raised \in {"", "MoveError"} :
         /\ moveExc' = raised
         /\ IF DragMoveError(raised) # ""
            THEN RaiseFrom(condition_result, DragMoveError(raised))
            ELSE Goto("drag_check")
    /\ UNCHANGED <<factoryVars, runVars, act, bridge, condClass, registry, cache, stopArg,
                   mgr, stopSet, condition_result, checked, lookups, lookupLog,
                   sleeps, execs, stopAtCall,
                   stopDuring>>

\* Drag's check of the stop event between its two calls: line 374
ExecDragCheck ==
    /\ pc = "drag_check"
    /\ IF StopIsSet(stopArg, stopSet) THEN CoreDone("cut_short") ELSE Goto("drag_call")
    /\ UNCHANGED <<factoryVars, runVars, act, bridge, condClass, registry, cache, stopArg,
                   mgr, stopSet, condition_result, checked, lookups, lookupLog,
                   calls, sleeps, execs, stopAtCall,
                   stopDuring, moveExc, stopAtOsCall>>

\* Drag's simulate_drag, which returns or raises: line 375
ExecDragCall ==
    /\ pc = "drag_call"
    /\ calls' = Append(calls, OsCall(act))
    /\ stopAtOsCall' = StopIsSet(stopArg, stopSet)
    /\ \E raises \in BOOLEAN :
         IF raises THEN RaiseFrom(condition_result, "BridgeError")
         ELSE CoreDone("performed")
    /\ UNCHANGED <<factoryVars, runVars, act, bridge, condClass, registry, cache, stopArg,
                   mgr, stopSet, condition_result, checked, lookups, lookupLog,
                   sleeps, execs, stopAtCall,
                   stopDuring, moveExc>>

\* Wait's main sleep ends, interrupted or not: line 401
ExecWaitEnd ==
    /\ pc = "wait_main"
    /\ CoreDone(IF interruptible_sleep(stopArg, stopSet) THEN "cut_short" ELSE "performed")
    /\ UNCHANGED <<factoryVars, runVars, act, bridge, condClass, registry, cache, stopArg,
                   mgr, stopSet, condition_result, checked, lookups, lookupLog,
                   calls, sleeps, execs, stopAtCall,
                   stopDuring, moveExc, stopAtOsCall>>

\* another thread sets the job's stop event
SetStop ==
    /\ ~stopSet
    /\ stopSet' = TRUE
    /\ stopDuring' = (stopDuring \/ (Running /\ stopArg = "event"))
    /\ UNCHANGED <<factoryVars, runVars, act, bridge, condClass, registry, cache, stopArg,
                   mgr, pc, condition_result, checked, lookups, lookupLog,
                   calls, sleeps, ret, how,
                   execs, stopAtCall, coreExc, moveExc, stopAtOsCall>>

\* the host clears the stop event between two calls
ClearStop ==
    /\ stopSet
    /\ ~Running
    /\ stopSet' = FALSE
    /\ UNCHANGED <<factoryVars, runVars, act, bridge, condClass, registry, cache, stopArg,
                   mgr, pc, condition_result, checked, lookups, lookupLog,
                   calls, sleeps, ret, how,
                   execs, stopAtCall, coreExc, stopDuring, moveExc, stopAtOsCall>>

\* a shared condition is added to, replaced in or removed from the manager
RegistryChange ==
    /\ ~Running
    /\ act.condition_id # PyNone
    /\ \E found \in RegistryValues : found # registry /\ registry' = found
    /\ UNCHANGED <<factoryVars, runVars, act, bridge, condClass, cache, stopArg, mgr,
                   stopSet, pc, condition_result, checked, lookups, lookupLog,
                   calls, sleeps, ret, how,
                   execs, stopAtCall, coreExc, stopDuring, moveExc, stopAtOsCall>>

Next == \/ ExecCondition
        \/ ExecPreempt
        \/ ExecCoreEnter
        \/ ExecDelayInterrupted
        \/ ExecDelayElapsed
        \/ ExecCall
        \/ ExecDragMove
        \/ ExecDragCheck
        \/ ExecDragCall
        \/ ExecWaitEnd
        \/ SetStop
        \/ ClearStop
        \/ RegistryChange
Init == ExecInit
Spec == Init /\ [][Next]_vars

(***************************************************************************)
(* Properties of execute().                                                *)
(***************************************************************************)
Conditioned == act.condition_id # PyNone
ReturnedValue(value) == pc = "returned" /\ ret = [kind |-> "returned", value |-> value, exc |-> ""]

\* the three fail-closed cases of a call: no usable manager, a lookup that
\* returned None, a check() that raised
NoManager == mgr # "ok"
LookupReturnedNone == mgr = "ok" /\ lookups = 1 /\ cache = NoObject
CheckRaised == checked = "raise"
FailClosedCase == execs > 0 /\ Conditioned /\ (NoManager \/ LookupReturnedNone \/ CheckRaised)

\* C1: for an action with a condition_id, a call made with no usable condition
\* manager, or whose lookup returns None, or whose condition's check() raises,
\* returns False, raises nothing and makes no os-interaction call.
C1_FailClosed ==
    FailClosedCase => ReturnedValue(FALSE) /\ calls = <<>> /\ coreExc = ""
C1_Witness == Conditioned /\ CheckRaised /\ ReturnedValue(FALSE) /\ calls = <<>>

\* C2: a call begun with the stop event already set, whose condition (if any)
\* is met, makes no os-interaction call, starts no delay, raises nothing and
\* returns the condition outcome True.
C2_Preempted ==
    (execs > 0 /\ stopAtCall /\ condition_result)
        => /\ calls = <<>>
           /\ sleeps = <<>>
           /\ pc # "raised"
           /\ (pc = "returned" => ReturnedValue(TRUE))
C2_Witness == stopAtCall /\ Conditioned /\ checked = "True" /\ ReturnedValue(TRUE)
                /\ how = "preempted"

\* C3: a call that returns returns the condition outcome: True with no
\* condition_id, otherwise what check() returned (False when the condition
\* could not be checked), whether the input was performed, pre-empted or cut
\* short.
C3_ReturnsConditionOutcome ==
    pc = "returned"
        => /\ ret.kind = "returned"
           /\ ret.value = (IF Conditioned THEN checked = "True" ELSE TRUE)
           /\ how \in {"not_met", "preempted", "performed", "cut_short"}
C3_Witness == pc = "returned" /\ how = "cut_short" /\ Conditioned /\ checked = "True"
                /\ ret.value = TRUE

\* C4: an exception raised by the core logic (the precondition check or the
\* os-interaction call) leaves execute() as that exception: no boolean is
\* returned, and the only os-interaction calls made are the action's own, none
\* of its fallback_action_sequence.
C4_CoreExceptionPropagates ==
    coreExc # ""
        => /\ pc = "raised"
           /\ ret = [kind |-> "raised", value |-> FALSE, exc |-> coreExc]
           /\ condition_result
           /\ ~stopAtCall
           /\ \A k \in 1..Len(calls) : calls[k] \in {OsCall(act), DragMoveCall(act)}
C4_Witness == pc = "raised" /\ coreExc = "BridgeError" /\ ret.kind = "raised"
                /\ act.fallback = FbNone /\ Len(calls) = 1

\* execute() has passed the condition and the pre-emption check
CoreEntered == condition_result /\ pc \notin {"idle", "preempt"} /\ how # "preempted"
\* the waits a valid Wait action makes when nothing interrupts it
WaitSleeps(action) ==
    (IF action.attrs["delay_before"].i > 0 THEN <<"delay_before">> ELSE <<>>)
      \o (IF action.attrs["duration"].i > 0 THEN <<"duration">> ELSE <<>>)

\* C16: with the bridge unavailable, execute() on a non-Wait action whose
\* condition is met and whose stop signal is not set raises instead of
\* returning and makes no os-interaction call, while execute() on a valid Wait
\* action never raises, completes its waits and returns True.
C16_BridgeUnavailable ==
    /\ (~bridge /\ act.type # WaitTYPE /\ CoreEntered) =>
         /\ pc \in {"core", "raised"}
         /\ calls = <<>>
         /\ sleeps = <<>>
         /\ pc = "raised" => /\ ret.kind = "raised"
                            /\ ret.exc = (IF act.is_valid THEN "RuntimeError"
                                           ELSE "ValueError")
    /\ (~bridge /\ act.type = WaitTYPE /\ act.is_valid /\ CoreEntered) =>
         /\ pc # "raised"
         /\ calls = <<>>
         /\ pc = "returned" => ret = [kind |-> "returned", value |-> TRUE, exc |-> ""]
         /\ (pc = "returned" /\ how = "performed") => sleeps = WaitSleeps(act)

C16_Witness ==
    /\ ~bridge
    /\ act.type = ClickTYPE
    /\ act.is_valid
    /\ act.condition_id = PyStr(C1Id)
    /\ checked = "True"
    /\ pc = "raised"
    /\ ret.exc = "RuntimeError"

\* the variants whose core logic is one delay and one os-interaction call
SingleCallTypes == {ClickTYPE, PressKeyTYPE, MoveMouseTYPE, KeyDownTYPE, KeyUpTYPE,
                    TextEntryTYPE, ModifiedKeyStrokeTYPE}
\* the client function each of them calls
SingleCallFn(type) ==
    CASE type = ClickTYPE -> "simulate_click"
      [] type = PressKeyTYPE -> "simulate_key_press"
      [] type = MoveMouseTYPE -> "simulate_move_mouse"
      [] type = KeyDownTYPE -> "simulate_key_down"
      [] type = KeyUpTYPE -> "simulate_key_up"
      [] type = TextEntryTYPE -> "simulate_text_entry"
      [] type = ModifiedKeyStrokeTYPE -> "simulate_modified_key_stroke"
\* the case of C17: a call of execute() that has ended, on a valid action of
\* these variants without condition_id, the bridge available, the stop event
\* missing or never set during the call
SingleCallCase ==
    /\ act.type \in SingleCallTypes
    /\ act.is_valid
    /\ act.condition_id = PyNone
    /\ bridge
    /\ execs > 0
    /\ pc \in {"returned", "raised"}
    /\ ~stopDuring

\* C17: in that case execute() has made exactly one os-interaction call, the one
\* of its variant with the values stored at construction (for Click: x, y,
\* button, click_type, hold_duration), and, the call having returned, execute()
\* returns True; nothing but that call raises.
C17_ExactlyOneCall ==
    SingleCallCase =>
      /\ Len(calls) = 1
      /\ calls[1].fn = SingleCallFn(act.type)
      /\ calls[1].args = OsCall(act).args
      /\ act.type = ClickTYPE =>
           calls[1].args = <<PyInt(1), PyInt(2), PyStr(<<"r", "i", "g", "h", "t">>),
                             PyStr(<<"d", "o", "u", "b", "l", "e">>), PyFloat(0)>>
      /\ pc = "returned" => ret = [kind |-> "returned", value |-> TRUE, exc |-> ""]
      /\ pc = "raised" => ret.exc = "BridgeError"

C17_Witness ==
    /\ SingleCallCase
    /\ act.type = ClickTYPE
    /\ stopArg = "event"
    /\ pc = "returned"
    /\ how = "performed"
    /\ calls = <<[fn |-> "simulate_click",
                  args |-> <<PyInt(1), PyInt(2), PyStr(<<"r", "i", "g", "h", "t">>),
                             PyStr(<<"d", "o", "u", "b", "l", "e">>), PyFloat(0)>>]>>
    /\ ret.value

\* a call of execute() on a valid Drag action that entered the core logic
DragCase == act.type = DragTYPE /\ act.is_valid /\ bridge /\ CoreEntered
DragMoveMade == Len(calls) >= 1 /\ calls[1] = [fn |-> "simulate_move_mouse",
                                                args |-> <<act.attrs["start_x"],
                                                           act.attrs["start_y"]>>]
\* the step Drag takes at its check of the stop event when the event is set
DragStoppedStep ==
    (DragCase /\ pc = "drag_check" /\ StopIsSet(stopArg, stopSet) /\ pc' # pc) =>
      /\ pc' = "returned"
      /\ calls' = calls
      /\ ret' = [kind |-> "returned", value |-> condition_result, exc |-> ""]

\* C18: Drag calls simulate_move_mouse to the start point before simulate_drag;
\* an exception of that preliminary move is swallowed and the drag is still
\* attempted; when the stop signal is set after the preliminary move and before
\* the drag, simulate_drag is not called and execute() returns the condition
\* outcome without raising.
C18_DragOrder ==
    /\ [](DragCase =>
            /\ pc \in {"drag_check", "drag_call"} => (Len(calls) = 1 /\ DragMoveMade)
            /\ \A k \in 1..Len(calls) :
                 calls[k].fn = "simulate_drag" => (k = 2 /\ DragMoveMade)
            /\ moveExc # "" => (DragMoveMade /\ coreExc # moveExc)
            /\ pc = "raised" => (Len(calls) = 2 /\ calls[2].fn = "simulate_drag")
            /\ (pc = "returned" /\ how = "performed") =>
                 (Len(calls) = 2 /\ calls[2].fn = "simulate_drag")
            /\ (pc = "returned" /\ ~stopDuring) => how = "performed"
            /\ (pc = "returned" /\ Len(calls) = 1) =>
                 (how = "cut_short" /\ stopDuring /\ ret.kind = "returned" /\ ret.value))
    /\ [][DragStoppedStep]_vars

C18_Witness ==
    /\ DragCase
    /\ moveExc = "MoveError"
    /\ Len(calls) = 2
    /\ calls[2] = [fn |-> "simulate_drag",
                   args |-> <<PyInt(3), PyInt(4), PyStr(<<"r", "i", "g", "h", "t">>),
                              PyFloat(MaxDelay)>>]
    /\ pc = "returned"
    /\ ret.value

\* the step that ends a delay_before wait during which the stop event is set
DelayStoppedStep ==
    (pc = "delay" /\ StopIsSet(stopArg, stopSet) /\ pc' # pc) =>
      /\ pc' = "returned"
      /\ how' = "cut_short"
      /\ calls' = <<>>
      /\ ret' = [kind |-> "returned", value |-> TRUE, exc |-> ""]
\* the step that ends Wait's main wait during which the stop event is set
WaitStoppedStep ==
    (pc = "wait_main" /\ StopIsSet(stopArg, stopSet) /\ pc' # pc) =>
      (pc' = "returned" /\ how' = "cut_short" /\ ret'.value)
\* the step that ends a wait of a call made without stop event
FullWaitStep ==
    (pc \in {"delay", "wait_main"} /\ stopArg = "none" /\ pc' # pc) =>
      /\ how' # "cut_short"
      /\ pc = "delay" => pc' = AfterDelay(act) \/ (AfterDelay(act) = "done" /\ pc' = "returned")
      /\ pc = "wait_main" => (pc' = "returned" /\ how' = "performed")

\* C19: when the stop signal is set while an action is inside its delay_before
\* wait, the wait ends early, no simulated-input call is made and execute()
\* returns the condition outcome True; a stop signal set during Wait's main
\* duration ends that wait early; without a stop signal every wait runs its
\* full duration.
C19_InterruptibleWaits ==
    /\ [][DelayStoppedStep /\ WaitStoppedStep /\ FullWaitStep]_vars
    /\ [](how = "cut_short" => (stopArg = "event" /\ stopDuring /\ ret.kind = "returned"))
    /\ []((how = "cut_short" /\ act.type # DragTYPE) => calls = <<>>)

C19_Witness ==
    /\ act.type = ClickTYPE
    /\ act.attrs["delay_before"] = PyFloat(MaxDelay)
    /\ sleeps = <<"delay_before">>
    /\ stopDuring
    /\ ~stopAtCall
    /\ pc = "returned"
    /\ how = "cut_short"
    /\ calls = <<>>
    /\ ret.value

\* the duration-like parameters a variant reads
DurationKeys(type) ==
    CASE type = ClickTYPE -> {"delay_before", "hold_duration"}
      [] type \in {MoveMouseTYPE, DragTYPE, WaitTYPE} -> {"delay_before", "duration"}
      [] OTHER -> {"delay_before"}
IsNegativeNumber(v) == v.t \in {"int", "float"} /\ v.i < 0
\* the loaded dictionary with 0.0 in place of each negative duration
ZeroedData ==
    [data EXCEPT !.params.d =
       [k \in ParamKeys |-> IF k \in DurationKeys(data.type.s) /\ IsNegativeNumber(@[k])
                            THEN PyFloat(0) ELSE @[k]]]
GivenNegative == \E k \in DurationKeys(act.type) : IsNegativeNumber(data.params.d[k])
ZeroWait == /\ act.type = WaitTYPE
            /\ act.is_valid
            /\ act.attrs["duration"] = PyFloat(0)
            /\ act.attrs["delay_before"] = PyFloat(0)

\* C20: every duration-like parameter (delay_before, hold_duration, duration)
\* given as a negative number is stored as 0.0, in the attribute and in params,
\* and the action is as valid as with 0.0 given; a Wait action whose duration
\* and delay_before are both 0 performs no sleep when executed and returns True.
C20_NegativeDurationsClamped ==
    /\ (GivenNegative /\ from_dict(ZeroedData).val.is_valid) =>
         /\ act.is_valid
         /\ \A k \in DurationKeys(act.type) :
              IsNegativeNumber(data.params.d[k]) =>
                (act.attrs[k] = PyFloat(0) /\ act.params[k] = PyFloat(0))
    /\ ZeroWait =>
         /\ pc \notin {"delay", "wait_main", "raised"}
         /\ sleeps = <<>>
         /\ calls = <<>>
         /\ (pc = "returned" /\ CoreEntered) =>
              (how = "performed" /\ ret = [kind |-> "returned", value |-> TRUE, exc |-> ""])

C20_Witness ==
    /\ data.type = PyStr(WaitTYPE)
    /\ data.params.d["duration"] = PyFloat(-1)
    /\ data.params.d["delay_before"] = PyFloat(-MaxDelay)
    /\ ZeroWait
    /\ act.params["duration"] = PyFloat(0)
    /\ pc = "returned"
    /\ how = "performed"
    /\ sleeps = <<>>
    /\ ret.value

\* the condition_id of the loaded dictionary
IdGiven == DataGet(data.condition_id, PyNone)
NoIdGiven == IdGiven.t # "str" \/ Strip(IdGiven.s) = <<>>

\* C22: a condition_id that is None, no string, empty or blank is stored as
\* None and the action executes unconditionally (outcome True, no lookup on the
\* condition manager); any other string is stored stripped, and the stripped
\* value is the id passed to get_shared_condition_by_id.
C22_ConditionIdNormalized ==
    /\ NoIdGiven =>
         /\ act.condition_id = PyNone
         /\ condition_result
         /\ lookups = 0
         /\ lookupLog = <<>>
         /\ checked = "none"
         /\ how # "not_met"
         /\ pc = "returned" => ret = [kind |-> "returned", value |-> TRUE, exc |-> ""]
    /\ ~NoIdGiven =>
         /\ act.condition_id = PyStr(Strip(IdGiven.s))
         /\ \A k \in 1..Len(lookupLog) : lookupLog[k].id = Strip(IdGiven.s)
         /\ (execs > 0 /\ mgr = "ok" /\ cache = NoObject) => lookups = 1

C22_Witness ==
    /\ IdGiven = PyStr(<<" ", "c", "1", " ">>)
    /\ act.condition_id = PyStr(C1Id)
    /\ lookupLog = <<[id |-> C1Id, found |-> CondA]>>
    /\ checked = "True"
    /\ pc = "returned"
    /\ ret.value

\* the positions inside _execute_core_logic
CorePositions == {"core", "delay", "call", "drag_move", "drag_check", "drag_call", "wait_main"}
\* the steps of a call follow the order condition check, stop check, core logic
OrderedStep ==
    /\ execs' # execs =>
         /\ pc' \in {"preempt", "returned"}
         /\ pc' = "returned" <=> ~condition_result'
         /\ pc' = "returned" => (how' = "not_met" /\ ~ret'.value)
    /\ (pc = "preempt" /\ pc' # pc) =>
         /\ pc' \in {"core", "returned"}
         /\ pc' = "returned" <=> StopIsSet(stopArg, stopSet)
         /\ pc' = "returned" => (how' = "preempted" /\ ret'.value = condition_result)
    /\ (pc' = "preempt" /\ pc' # pc) => execs' # execs
    /\ (pc' \in CorePositions /\ pc' # pc) => pc \in CorePositions \cup {"preempt"}
    /\ (pc' = "core" /\ pc' # pc) => pc = "preempt"

\* C23: in every call the steps occur in the order condition check, stop-signal
\* check, core logic: check() is invoked even when the stop signal is already
\* set, and when the condition is not met execute() returns False whether or
\* not the stop signal is set, reaching neither the stop check nor the core.
C23_StepOrder ==
    /\ [][OrderedStep]_vars
    /\ []((execs > 0 /\ Conditioned /\ mgr = "ok" /\ CheckIsCalled(cache, condClass))
            => checked # "none")
    /\ [](how = "not_met" =>
            /\ pc = "returned"
            /\ ret = [kind |-> "returned", value |-> FALSE, exc |-> ""]
            /\ calls = <<>> /\ sleeps = <<>> /\ coreExc = "")
    /\ [](pc = "preempt" => (condition_result /\ calls = <<>> /\ sleeps = <<>>))

C23_Witness ==
    /\ stopAtCall
    /\ Conditioned
    /\ checked = "False"
    /\ pc = "returned"
    /\ how = "not_met"
    /\ ~ret.value
    /\ calls = <<>>

\* C24: an action marked invalid at construction never makes an os-interaction
\* call and never starts a delay: with its condition met and no stop signal,
\* execute() raises the validation error, also when the bridge is unavailable
\* (the validity check comes first); with its condition not met or the stop
\* signal already set, execute() returns the condition outcome without raising.
C24_InvalidNeverActs ==
    ~act.is_valid =>
        /\ calls = <<>>
        /\ sleeps = <<>>
        /\ pc \notin CorePositions \ {"core"}
        /\ pc = "raised" => (coreExc = "ValueError" /\ ret.exc = "ValueError")
        /\ pc = "returned" =>
             /\ how \in {"not_met", "preempted"}
             /\ ret = [kind |-> "returned", value |-> condition_result, exc |-> ""]
        /\ (pc = "returned" /\ how = "preempted") => condition_result
        /\ (execs > 0 /\ ~Running /\ condition_result /\ ~stopDuring) => pc = "raised"
        /\ (execs > 0 /\ ~Running /\ (~condition_result \/ stopAtCall)) => pc = "returned"

C24_Witness ==
    /\ ~act.is_valid
    /\ act.type # WaitTYPE
    /\ ~bridge
    /\ Conditioned
    /\ checked = "True"
    /\ pc = "raised"
    /\ coreExc = "ValueError"
    /\ calls = <<>>

\* the lookup returned an object whose id is the action's condition_id
FoundOwnId(entry) == entry.found # NoObject /\ entry.found.id = act.condition_id.s
\* a call made while the cache holds such an object reuses it without a lookup
CacheReuseStep ==
    (execs' # execs /\ mgr' = "ok" /\ Conditioned
        /\ cache # NoObject /\ cache.id = act.condition_id.s) =>
        /\ cache' = cache
        /\ lookups' = 0
        /\ lookupLog' = lookupLog
        /\ CheckIsCalled(cache, condClass) => checked' # "none"
        /\ ~CheckIsCalled(cache, condClass) => ~condition_result'

\* C25: across the execute() calls on one Action, once
\* get_shared_condition_by_id has returned a condition whose id equals the
\* action's condition_id, every later execute() reuses that object and does
\* not call the lookup again.
C25_CachedConditionReused ==
    /\ [][CacheReuseStep]_vars
    /\ [](\A k \in 1..Len(lookupLog) :
            FoundOwnId(lookupLog[k]) => (k = Len(lookupLog) /\ cache = lookupLog[k].found))

C25_Witness ==
    /\ execs = 2
    /\ mgr = "ok"
    /\ lookupLog = <<[id |-> C1Id, found |-> CondA]>>
    /\ lookups = 0
    /\ cache = CondA
    /\ registry = CondA
    /\ checked = "True"
    /\ pc = "returned"
    /\ how = "performed"

\* the action with its directive fields at their defaults
WithoutDirectives(action) ==
    [action EXCEPT !.next_met = PyNone, !.next_not_met = PyNone, !.is_absolute = FALSE,
                   !.fallback = FbNone]
\* what execute() reads of the action is the same without the directives
SameWithoutDirectives ==
    LET plain == WithoutDirectives(act)
    IN /\ ResolveCondition(plain, cache, registry) = ResolveCondition(act, cache, registry)
       /\ Precondition(plain, bridge) = Precondition(act, bridge)
       /\ AfterDelay(plain) = AfterDelay(act)
       /\ plain.attrs = act.attrs
       /\ act.type # WaitTYPE => OsCall(plain) = OsCall(act)
       /\ act.type = DragTYPE => DragMoveCall(plain) = DragMoveCall(act)
       /\ \A k \in 1..Len(calls) : calls[k] \in {OsCall(plain), DragMoveCall(plain)}
       /\ (pc = "raised" /\ calls = <<>>) => coreExc = Precondition(plain, bridge)

\* C26: execute() changes no field of the Action other than the cached
\* condition reference: type, params, condition_id, both jump indices,
\* is_absolute, fallback_action_sequence, _is_valid and _validation_error are
\* after any sequence of execute() calls what construction made them, and the
\* result and effects of execute() do not depend on the jump indices,
\* is_absolute or the fallback sequence.
C26_OnlyCacheChanges ==
    /\ act = from_dict(data).val
    /\ [][act' = act /\ data' = data]_vars
    /\ []SameWithoutDirectives

C26_Witness ==
    /\ data = DirectedInput
    /\ act.next_met = PyInt(1)
    /\ act.next_not_met = PyInt(MaxJump)
    /\ act.is_absolute
    /\ act.fallback # FbNone
    /\ execs = 2
    /\ cache = CondA
    /\ pc = "returned"
    /\ how = "performed"
    /\ calls = <<OsCall(WithoutDirectives(act))>>

\* the places where a call in progress looks at the stop event
StopObserved == {"preempt", "delay", "wait_main", "drag_check"}
CancellationStep ==
    /\ (Running /\ pc' = "returned" /\ how' \in {"preempted", "cut_short"}) =>
         (pc \in StopObserved /\ StopIsSet(stopArg, stopSet))
    /\ (pc = "preempt" /\ pc' # pc /\ StopIsSet(stopArg, stopSet)) => how' = "preempted"
    /\ (pc = "drag_check" /\ pc' # pc /\ StopIsSet(stopArg, stopSet)) => how' = "cut_short"
    /\ (pc \in {"call", "drag_move", "drag_call"} /\ pc' # pc) =>
         /\ Len(calls') = Len(calls) + 1
         /\ stopAtOsCall' = StopIsSet(stopArg, stopSet)
         /\ how' \in {"none", "performed", "raised"}

\* C28: cancellation is observed only at the pre-emption check, inside
\* interruptible waits and between Drag's two sub-steps: when the stop signal
\* is set after the pre-emption check has passed (or after delay_before has
\* run out) and before the bridge call, the simulated-input call is still
\* made, so a simulated input can be issued while the stop signal is set.
C28_StopNotSeenBeforeCall ==
    /\ [][CancellationStep]_vars
    /\ [](stopAtOsCall => (calls # <<>> /\ stopDuring /\ how \notin {"preempted", "not_met"}))

C28_Witness ==
    /\ act.type = ClickTYPE
    /\ ~stopAtCall
    /\ stopAtOsCall
    /\ sleeps = <<"delay_before">>
    /\ calls = <<OsCall(act)>>
    /\ pc = "returned"
    /\ how = "performed"
    /\ ret.value

\* a call made with a usable manager by an action that has a condition_id
AskedStep == execs' # execs /\ mgr' = "ok" /\ Conditioned
\* the outcome of the call is that of evaluating object
EvaluatedAs(object) ==
    /\ CheckIsCalled(object, condClass) =>
         (checked' # "none" /\ condition_result' = (checked' = "True"))
    /\ ~CheckIsCalled(object, condClass) => (checked' = "none" /\ ~condition_result')
\* a call made while the manager's entry is no longer the cached object
StaleCacheStep ==
    (AskedStep /\ cache # NoObject /\ cache.id = act.condition_id.s /\ registry # cache) =>
        /\ cache' = cache
        /\ lookups' = 0
        /\ EvaluatedAs(cache)

\* C29: once an Action has cached a resolved condition it keeps evaluating
\* that cached object on every later execute(), even when the condition
\* manager would now return None or a different object for the same id; a
\* condition removed from the manager does not make the action fail closed.
C29_StaleCacheEvaluated ==
    /\ [][StaleCacheStep]_vars
    /\ []((cache # NoObject /\ cache.id = act.condition_id.s) =>
            \E k \in 1..Len(lookupLog) : lookupLog[k].found = cache)

\* the second call is in progress: its condition was evaluated as met although
\* the manager has no entry under the id
C29_Witness ==
    /\ execs = 2
    /\ pc = "preempt"
    /\ registry = NoObject
    /\ cache = CondA
    /\ lookupLog = <<[id |-> C1Id, found |-> CondA]>>
    /\ lookups = 0
    /\ checked = "True"
    /\ condition_result

\* a call made while the cache is empty
EmptyCacheStep ==
    (AskedStep /\ cache = NoObject) =>
        /\ lookups' = 1
        /\ lookupLog' = Append(lookupLog, [id |-> act.condition_id.s, found |-> registry])
        /\ cache' = registry
        /\ EvaluatedAs(registry)
        /\ registry = NoObject =>
             (pc' = "returned" /\ ret' = [kind |-> "returned", value |-> FALSE, exc |-> ""])

\* C30: a lookup that returns None leaves the cache empty: that execute()
\* returns False, and the next execute() calls get_shared_condition_by_id
\* again, so a condition registered later under that id is picked up and
\* evaluated.
C30_MissNotCached ==
    /\ [][EmptyCacheStep]_vars
    /\ []((lookupLog # <<>> /\ lookupLog[Len(lookupLog)].found = NoObject) => cache = NoObject)

C30_Witness ==
    /\ execs = 2
    /\ lookupLog = <<[id |-> C1Id, found |-> NoObject], [id |-> C1Id, found |-> CondA]>>
    /\ cache = CondA
    /\ lookups = 1
    /\ checked = "True"
    /\ pc = "returned"
    /\ how = "performed"
    /\ ret.value

(***************************************************************************)
(* Claims about construction (checked under SpecFactory).                  *)
(***************************************************************************)
GivenType == DataGet(data.type, PyNone)
GivenTypeOk == data.isdict /\ GivenType.t = "str" /\ GivenType.s # <<>>
PlaceholderTypes == {ErrorCreating \o PyStrOf(DataGet(data.type, PyStr(Unknown))),
                     UnexpectedErrorCreating \o PyStrOf(DataGet(data.type, PyStr(Unknown)))}

\* C5: create_action(data) returns an Action and never raises: a non-dict input
\* yields an Action of type invalid_data_type_for_factory, and a dict for which
\* from_dict fails yields an Action of type error_creating_<type> or
\* unexpected_error_creating_<type> carrying the original params, condition_id
\* and is_absolute.
C5_CreateActionNeverRaises ==
    made.op = "create_action" =>
      /\ made.ok
      /\ ~data.isdict => made.val.type = InvalidDataType
      /\ (data.isdict /\ ~from_dict(data).ok) =>
           /\ made.val.type \in PlaceholderTypes
           /\ made.val.params = data.params.d
           /\ made.val.condition_id = InitConditionId(DataGet(data.condition_id, PyNone))
           /\ made.val.is_absolute = Truthy(DataGet(data.is_absolute, PyBool(FALSE)))

\* C6 (loading): from_dict on a dictionary whose type is a non-empty string
\* outside the nine known variants returns, without raising, an Action carrying
\* that type, params and flags.
C6_UnknownTypeLoads ==
    (made.op = "from_dict" /\ GivenTypeOk /\ GivenType.s \notin KnownTypes) =>
      /\ made.ok
      /\ made.val.type = GivenType.s
      /\ made.val.params = data.params.d
      /\ made.val.is_absolute = Truthy(DataGet(data.is_absolute, PyBool(FALSE)))

\* C7: for every valid action a of a known variant, from_dict(to_dict(a)) has
\* the same type, params, condition_id, jump indices, is_absolute and
\* fallback_action_sequence as a, and to_dict(from_dict(to_dict(a))) = to_dict(a).
C7_RoundTrip ==
    (again.op = "round_trip" /\ made.val.is_valid) =>
      /\ again.ok
      /\ again.val.type = made.val.type
      /\ again.val.params = made.val.params
      /\ again.val.condition_id = made.val.condition_id
      /\ again.val.next_met = made.val.next_met
      /\ again.val.next_not_met = made.val.next_not_met
      /\ again.val.is_absolute = made.val.is_absolute
      /\ again.val.fallback = made.val.fallback
      /\ to_dict(again.val) = to_dict(made.val)

C7_Witness ==
    /\ again.op = "round_trip"
    /\ again.ok
    /\ made.val.is_valid
    /\ made.val.type = DragTYPE
    /\ made.val.condition_id = PyStr(<<"c", "1">>)
    /\ made.val.is_absolute
    /\ made.val.fallback.t = "list"
    /\ Len(made.val.fallback.items) = 2

\* an entry of a fallback sequence that is a dict with a non-empty "type"
C12_EntryPasses(entry) == entry.isdict /\ Truthy(entry.type)
C12_Expected == IF data.fallback.t = "list" THEN SelectSeq(data.fallback.items, C12_EntryPasses)
                ELSE <<>>
C12_JumpOk(index) == index = PyNone \/ (index.t = "int" /\ index.i >= 0)

\* C12: every Action that construction returns has a non-empty string type, a
\* mapping as params, jump indices that are None or an integer >= 0, and a
\* fallback_action_sequence that is None or the non-empty list of exactly the
\* input entries that are dicts with a non-empty type, in their original order.
C12_ConstructionInvariants ==
    (made.op # "none" /\ made.ok) =>
      /\ made.val.type # <<>>
      /\ DOMAIN made.val.params = ParamKeys
      /\ C12_JumpOk(made.val.next_met)
      /\ C12_JumpOk(made.val.next_not_met)
      /\ made.val.fallback = (IF C12_Expected = <<>> THEN FbNone ELSE FbList(C12_Expected))
      /\ \A k \in 1..Len(made.val.fallback.items) :
            C12_EntryPasses(made.val.fallback.items[k])

C12_Witness ==
    /\ made.op = "constructor"
    /\ made.ok
    /\ Len(data.fallback.items) = 5
    /\ Len(made.val.fallback.items) = 2
    /\ made.val.next_not_met = PyInt(1)

\* the jump-index inputs of the call and what the action stores for them
JumpBuilt == made.op \in {"constructor", "from_dict"} /\ made.ok
JumpGiven(field) == IF field = "met" THEN DataGet(data.next_met, PyNone)
                    ELSE DataGet(data.next_not_met, PyNone)
JumpStored(field) == IF field = "met" THEN made.val.next_met ELSE made.val.next_not_met
JumpFields == {"met", "not_met"}
\* an integer, or a string that spells one (sign and surrounding blanks allowed)
IsIntegerInput(v) == v.t = "int" \/ (v.t = "str" /\ AllDigits(Unsigned(Strip(v.s))))
IntegerInput(v) == IF v.t = "int" THEN v.i
                   ELSE Signed(Strip(v.s), DigitsVal(Unsigned(Strip(v.s))))

\* C13 as stated: a negative, non-numeric or otherwise invalid jump index is
\* stored as None; only a non-negative integer input is stored as a jump target.
C13_AsStated ==
    JumpBuilt =>
      \A f \in JumpFields :
        JumpStored(f) = (IF IsIntegerInput(JumpGiven(f)) /\ IntegerInput(JumpGiven(f)) >= 0
                         THEN PyInt(IntegerInput(JumpGiven(f)))
                         ELSE PyNone)

\* C13 (amended): a jump index that is an integer, or a string spelling one, is
\* stored as max(0, n), a negative one as 0; any other input (None, a blank or
\* non-numeric string, a float, a bool) is stored as None.
C13_JumpIndexClampedOrNone ==
    JumpBuilt =>
      \A f \in JumpFields :
        JumpStored(f) = (IF IsIntegerInput(JumpGiven(f))
                         THEN PyInt(IF IntegerInput(JumpGiven(f)) < 0 THEN 0
                                    ELSE IntegerInput(JumpGiven(f)))
                         ELSE PyNone)

C13_Witness ==
    /\ made.op = "constructor"
    /\ made.ok
    /\ data.next_met = PyInt(-2)
    /\ made.val.next_met = PyInt(0)
    /\ data.next_not_met = PyStr(<<"a", "b", "c">>)
    /\ made.val.next_not_met = PyNone

\* C14 as stated: jump-index parsing maps "2" to 2, "-2" to 2, "" to None and
\* "abc" to None, in the constructor and in from_dict.
C14_AsStated ==
    JumpBuilt =>
      \A f \in JumpFields :
        /\ JumpGiven(f) = PyStr(<<"2">>) => JumpStored(f) = PyInt(2)
        /\ JumpGiven(f) = PyStr(<<"-", "2">>) => JumpStored(f) = PyInt(2)
        /\ JumpGiven(f) = PyStr(<<>>) => JumpStored(f) = PyNone
        /\ JumpGiven(f) = PyStr(<<"a", "b", "c">>) => JumpStored(f) = PyNone

\* C14 (amended): jump-index parsing maps "2" to 2, "-2" to 0, "" to None and
\* "abc" to None, in the constructor and in from_dict.
C14_JumpIndexParsing ==
    JumpBuilt =>
      \A f \in JumpFields :
        /\ JumpGiven(f) = PyStr(<<"2">>) => JumpStored(f) = PyInt(2)
        /\ JumpGiven(f) = PyStr(<<"-", "2">>) => JumpStored(f) = PyInt(0)
        /\ JumpGiven(f) = PyStr(<<>>) => JumpStored(f) = PyNone
        /\ JumpGiven(f) = PyStr(<<"a", "b", "c">>) => JumpStored(f) = PyNone

C14_Witness ==
    /\ made.op = "from_dict"
    /\ made.ok
    /\ data.next_met = PyStr(<<"2">>)
    /\ made.val.next_met = PyInt(2)
    /\ data.next_not_met = PyStr(<<"-", "2">>)
    /\ made.val.next_not_met = PyInt(0)

\* a variant's constructor was called with a dict (or no) params
Constructed == /\ made.op = "constructor"
               /\ data.params.t \in {"absent", "none", "dict"}
ParamGiven(key) == data.params.d[key]
\* what int() and float() make of a parameter, the variant's default when missing
AsInt(key) == PyIntOf(Get(data.params.d, key, PyInt(0)))
AsFloat(key) == PyFloatOf(Get(data.params.d, key, PyFloat(0)))
ClickNumbersOk == /\ \A k \in {"x", "y"} : AsInt(k).ok
                  /\ \A k \in {"delay_before", "hold_duration"} : AsFloat(k).ok
IsEmptyStr(v) == v = Absent \/ v = PyStr(<<>>)
ChoiceGiven(key, default) == Lower(PyStrOf(Get(data.params.d, key, PyStr(default))))
\* the validity each variant's constructor records
ValidityRules ==
    /\ made.val.type = ClickTYPE =>
         /\ made.val.is_valid <=> ClickNumbersOk
         /\ ~made.val.is_valid => made.val.validation_error # ""
         /\ made.val.is_valid =>
              /\ made.val.attrs["button"] =
                   (IF ChoiceGiven("button", LeftButton) \in Buttons
                    THEN PyStr(ChoiceGiven("button", LeftButton)) ELSE PyStr(LeftButton))
              /\ made.val.attrs["click_type"] =
                   (IF ChoiceGiven("click_type", SingleClick) \in ClickTypes
                    THEN PyStr(ChoiceGiven("click_type", SingleClick))
                    ELSE PyStr(SingleClick))
    /\ (made.val.type \in {PressKeyTYPE, KeyDownTYPE, KeyUpTYPE} /\ IsEmptyStr(ParamGiven("key")))
         => (~made.val.is_valid /\ made.val.validation_error # "")
    /\ (made.val.type = ModifiedKeyStrokeTYPE
          /\ (IsEmptyStr(ParamGiven("modifier")) \/ IsEmptyStr(ParamGiven("main_key"))))
         => (~made.val.is_valid /\ made.val.validation_error # "")
    /\ (made.val.type = TextEntryTYPE /\ IsEmptyStr(ParamGiven("text"))
          /\ AsFloat("delay_before").ok)
         => made.val.is_valid

\* C21: validity is fixed at construction: for Click an unrecognised button or
\* click_type becomes left / single and the action stays valid, a non-numeric
\* x, y, delay_before or hold_duration marks it invalid with a recorded error;
\* an empty key marks PressKey, KeyDown and KeyUp invalid; an empty modifier or
\* main_key marks ModifiedKeyStroke invalid; TextEntry with empty text stays
\* valid; and no constructor of the nine variants raises for a bad parameter.
C21_ValidityFixedAtConstruction ==
    Constructed => (made.ok /\ ValidityRules)

\* an entry that construction's own filter would drop lies somewhere below
RECURSIVE HasInvalidBelow(_)
HasInvalidBelow(entry) ==
    \E k \in 1..Len(entry.fb) :
        \/ ~C12_EntryPasses(entry.fb[k])
        \/ HasInvalidBelow(entry.fb[k])
StoredFallback == made.val.fallback.items

\* C27: construction and from_dict place no limit on fallback nesting: an
\* entry whose own fallback_action_sequence nests to depth 4 or more is
\* accepted and stored unchanged, nothing is rejected or truncated for depth,
\* and entries below the first level are not validated at all.
C27_NoNestingLimit ==
    (made.op # "none" /\ data.isdict /\ data.fallback.t = "list") =>
      /\ (data.type.t = "str" /\ data.type.s \in KnownTypes) => made.ok
      /\ made.ok =>
           /\ \A k \in 1..Len(data.fallback.items) :
                 C12_EntryPasses(data.fallback.items[k]) =>
                   \E j \in 1..Len(StoredFallback) : StoredFallback[j] = data.fallback.items[k]
           /\ \A j \in 1..Len(StoredFallback) :
                 \E k \in 1..Len(data.fallback.items) : StoredFallback[j] = data.fallback.items[k]

C27_Witness ==
    /\ made.op = "from_dict"
    /\ made.ok
    /\ data.fallback = FbList(<<Nested(MaxDepth)>>)
    /\ StoredFallback = <<Nested(MaxDepth)>>
    /\ EntryDepth(StoredFallback[1]) >= 4
    /\ HasInvalidBelow(StoredFallback[1])

(***************************************************************************)
(* Claims about run conditions (checked under SpecRun).                    *)
(***************************************************************************)
RcRequested == DataGet(rcdata.type, PyNone)
RcBadType == ~rcdata.isdict \/ RcRequested.t # "str" \/ RcRequested.s = <<>>
RcUnknownType == ~RcBadType /\ RcRequested.s \notin {InfiniteTYPE, CountTYPE, TimeTYPE}
RcParamsNotDict == rcdata.isdict /\ rcdata.params.t \in {"none", "other"}
RcParamsTruthyNotDict == rcdata.isdict /\ rcdata.params.t = "other" /\ rcdata.params.truthy
RcCountOverflows == /\ ~RcBadType
                    /\ RcRequested.s = CountTYPE
                    /\ rcdata.params.t = "dict"
                    /\ IsInf(rcdata.params.d["count"])
RcBuilt == cond.op = "create_job_run_condition"

C9_CountContinuesBelowTarget ==
    (cond.ok /\ cond.val.type = CountTYPE /\ last.called) =>
      /\ cond.val.target_count >= 1
      /\ last.result <=> (last.run_count < cond.val.target_count)
      /\ last.run_count >= cond.val.target_count => ~last.result

C9_Witness ==
    /\ cond.ok
    /\ cond.val.type = CountTYPE
    /\ cond.val.target_count = 2
    /\ last.called
    /\ last.run_count = 2
    /\ ~last.result

C10_Elapsed == last.now - context.start_time
C10_IsTime == cond.ok /\ cond.val.type = TimeTYPE
\* the value of one Time.check_continue call
C10_Value ==
    (C10_IsTime /\ last.called) =>
      /\ context.start_time = 0 => ~last.result
      /\ context.start_time # 0 =>
           (last.result <=> (IsInf(cond.val.duration_seconds)
                             \/ C10_Elapsed < cond.val.duration_seconds.i))
      /\ (context.start_time # 0 /\ ~IsInf(cond.val.duration_seconds)
          /\ C10_Elapsed = cond.val.duration_seconds.i) => ~last.result
\* a call that returned False is never followed by one that returns True
C10_StaysFalse == (C10_IsTime /\ last.called /\ ~last.result) => ~last'.result

\* C10: Time.check_continue returns False whenever start_time is 0.0; otherwise
\* it returns True exactly when now - start_time < duration_seconds (False at an
\* elapsed time equal to the duration), and with a non-decreasing clock it never
\* returns True again after returning False.
C10_TimeContinuesWithinDuration == [](C10_Value) /\ [][C10_StaysFalse]_vars

C10_Witness ==
    /\ C10_IsTime
    /\ last.called
    /\ context.start_time # 0
    /\ C10_Elapsed = cond.val.duration_seconds.i
    /\ cond.val.duration_seconds.i = 3
    /\ ~last.result
\* a Count or Time condition built from a dict params, and the value given
RcFromDict == RcBuilt /\ cond.ok /\ rcdata.isdict /\ rcdata.params.t = "dict"
RcCountBuilt == RcFromDict /\ cond.val.type = CountTYPE
RcTimeBuilt == RcFromDict /\ cond.val.type = TimeTYPE
RcGiven(key) == rcdata.params.d[key]
\* missing, None, or a string that does not spell a number
RcNotNumeric(v, isfloat) ==
    \/ v.t \in {"absent", "none"}
    \/ v.t = "str" /\ ~(IF isfloat THEN ParseFloat(v.s).ok ELSE ParseInt(v.s).ok)

\* C15: a Count or Time run condition built from a dict params has target_count
\* an integer >= 1 and duration_seconds >= 0.1; a missing or non-numeric count
\* gives 1, a missing or non-numeric duration gives 60.0, a value below the
\* minimum is raised to it, and params holds the normalized value.
C15_NormalizedParameters ==
    /\ RcCountBuilt =>
         /\ cond.val.target_count \in Nat
         /\ cond.val.target_count >= 1
         /\ cond.val.params["count"] = PyInt(cond.val.target_count)
         /\ RcNotNumeric(RcGiven("count"), FALSE) => cond.val.target_count = 1
         /\ RcGiven("count").t = "int" =>
              cond.val.target_count = (IF RcGiven("count").i < 1 THEN 1
                                       ELSE RcGiven("count").i)
    /\ RcTimeBuilt =>
         /\ cond.val.duration_seconds.t = "float"
         /\ IsInf(cond.val.duration_seconds) \/ cond.val.duration_seconds.i >= 1
         /\ ~IsInf(cond.val.duration_seconds) \/ cond.val.duration_seconds.i > 0
         /\ cond.val.params["duration"] = cond.val.duration_seconds
         /\ RcNotNumeric(RcGiven("duration"), TRUE)
              => cond.val.duration_seconds = PyFloat(600)
         /\ (RcGiven("duration").t = "float" /\ ~IsInf(RcGiven("duration"))) =>
              cond.val.duration_seconds = (IF RcGiven("duration").i < 1 THEN PyFloat(1)
                                           ELSE RcGiven("duration"))
         /\ RcGiven("duration").t = "int" =>
              cond.val.duration_seconds = (IF RcGiven("duration").i < 1 THEN PyFloat(1)
                                           ELSE PyFloat(10 * RcGiven("duration").i))

C15_Witness ==
    /\ RcCountBuilt
    /\ RcGiven("count") = PyInt(-1)
    /\ cond.val.target_count = 1
    /\ cond.val.params["count"] = PyInt(1)

(***************************************************************************)
(* Properties of a host loop over a run condition (checked under SpecLoop).*)
(***************************************************************************)
LoopIsCount == cond.ok /\ cond.val.type = CountTYPE
LoopIsInfinite == cond.ok /\ cond.val.type = InfiniteTYPE

\* C11: a host loop that starts with run_count 0, adds 1 after each pass, asks
\* check_continue after each pass and stops at the first False performs exactly
\* target_count passes under a Count run condition and then stops: it goes on
\* to another pass only below target_count and has stopped by itself only at
\* target_count.  Under an Infinite run condition check_continue never returns
\* False, so the loop never stops by itself.
C11_LoopRunsTargetCountPasses ==
    /\ (LoopIsCount /\ host.pc = "pass") => host.passes < cond.val.target_count
    /\ (LoopIsCount /\ host.pc = "check") => host.passes <= cond.val.target_count
    /\ (LoopIsCount /\ host.pc = "stopped") => host.passes = cond.val.target_count
    /\ LoopIsInfinite => (host.pc # "stopped" /\ (last.called => last.result))

C11_Witness ==
    /\ LoopIsCount
    /\ cond.val.target_count = 3
    /\ host = [pc |-> "stopped", passes |-> 3]
    /\ context.run_count = 3
====
